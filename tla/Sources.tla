------------------------------- MODULE Sources -------------------------------
(***************************************************************************)
(* Polling the code sources: poll_all of sources/base.py and the poll of   *)
(* each source.                                                            *)
(*                                                                         *)
(* A feed is what a source reads with one position: the Discord channel, a *)
(* mailbox, a public page.  A poll visits the sources in registry order.   *)
(* For each of them it reads every feed: look up the position, ask the     *)
(* server for what is new, save the new position.  Only then does it put   *)
(* the codes it found on file, one transaction each.  In between they      *)
(* exist in memory only.                                                   *)
(*                                                                         *)
(* Pollers are the service, whose lock lets it do one poll at a time, and  *)
(* `icr poll` commands in processes of their own.                          *)
(*                                                                         *)
(* Positions are numbers: of the newest message read (channel), the        *)
(* highest UID read (mailbox, all its folders taken as one), the version   *)
(* of the page the saved ETag belongs to.  0 is no position.               *)
(***************************************************************************)
EXTENDS Repo, Sequences

CONSTANTS
  Channels,       \* the Discord mirror channel
  Mailboxes,      \* enabled mailboxes
  Pages,          \* public code lists
  Owner,          \* [Mailboxes -> Accounts]
  Registry,       \* sequence of sources, each the set of its feeds
  Content,        \* [Feeds -> sequence of sets of codes]: what its messages will
                  \* announce, or the versions of the page list, and a bound
                  \* on how many there are
  Limit,          \* discord_fetch_limit, email_max_messages_per_folder
  Service,        \* the poller of the service
  Pollers,
  Unreliable,     \* the feeds whose server may be down for good
  MaxUpsets       \* bound: crashes of a poller, polls by commands, accounts
                  \* removed and positions reset, all together

Feeds == Channels \union Mailboxes \union Pages
Items(f) == DOMAIN Content[f]

ASSUME SourcesAssumption ==
  /\ Channels \intersect Mailboxes = {}
  /\ Pages \intersect (Channels \union Mailboxes) = {}
  /\ Owner \in [Mailboxes -> Accounts]
  /\ Registry \in Seq(SUBSET Feeds)
  /\ Content \in [Feeds -> Seq(SUBSET Codes)]
  /\ \A f \in Pages : \A i \in Items(f) : Content[f][i] # {}
  /\ Unreliable \subseteq Feeds
  /\ Service \in Pollers
  /\ MaxUpsets \in Nat
  /\ Limit \in Nat \ {0}

\* A code as a source returns it: with the scope it is stored under.
Discovered == Codes \X (Scopes \ {Absent})

VARIABLES
  published,      \* [Feeds -> number of items out there]
  down,           \* the feeds whose server never answers
  position,       \* [Feeds -> saved position]: the cursors in the kv table
  pc,             \* where each poller is
  source,         \* [Pollers -> index of the source being polled]
  left,           \* [Pollers -> feeds of that source not read yet]
  found,          \* [Pollers -> codes found and not on file yet]
  passedOver,     \* history: items a read without position started after
  dropped,        \* history: codes lost with the poller that held them, or
                  \* deleted with the account they were pinned to
  upsets          \* number of all these so far

pollVars == <<pc, source, left, found>>
vars == <<repoVars, published, down, position, pollVars, passedOver, dropped, upsets>>

\* "idle", "reading" between two feeds, "storing"; or at a feed: before the
\* answer arrives, with the position looked up ("asked"), and before the
\* position that it reaches is saved ("answered"; `from` is the one looked up).
PCs == [at: {"idle", "reading", "storing"}]
         \union [at: {"asked"}, feed: Feeds, n: Nat]
         \union [at: {"answered"}, feed: Feeds, n: Nat, from: Nat]

TypeOK ==
  /\ RepoTypeOK
  /\ published \in [Feeds -> Nat]
  /\ down \in SUBSET Feeds
  /\ position \in [Feeds -> Nat]
  /\ pc \in [Pollers -> PCs]
  /\ source \in [Pollers -> 0 .. Len(Registry)]
  /\ left \in [Pollers -> SUBSET Feeds]
  /\ found \in [Pollers -> SUBSET Discovered]
  /\ passedOver \in [Feeds -> SUBSET Nat]
  /\ dropped \in SUBSET Discovered
  /\ \A p \in Pollers : pc[p].at = "idle" <=> source[p] = 0
  /\ \A p \in Pollers : pc[p].at = "idle" => left[p] = {} /\ found[p] = {}
  /\ upsets \in 0 .. MaxUpsets

\* A new installation with its accounts, none of whose feeds has been read.
Init ==
  /\ accounts \in [Accounts -> [enabled: {TRUE}, credentials_ok: {TRUE}, creds: Creds]]
  /\ \A a, b \in Accounts : accounts[a].creds = accounts[b].creds => a = b
  /\ codes = [c \in Codes |-> Absent]
  /\ redemptions = [p \in Pairs |-> NoRow]
  /\ published = [f \in Feeds |-> 0]
  /\ down \in SUBSET Unreliable
  /\ position = [f \in Feeds |-> 0]
  /\ pc = [p \in Pollers |-> [at |-> "idle"]]
  /\ source = [p \in Pollers |-> 0]
  /\ left = [p \in Pollers |-> {}]
  /\ found = [p \in Pollers |-> {}]
  /\ passedOver = [f \in Feeds |-> {}]
  /\ dropped = {}
  /\ upsets = 0

-----------------------------------------------------------------------------
(* What a server answers                                                   *)

\* A channel without position shows its newest Limit messages, with one the
\* oldest Limit after it; a mailbox the oldest Limit after it in any case; a
\* page all there is, unless it is the version asked about (304).
New(f, after) ==
  {i \in 1 .. published[f] :
     IF f \in Pages THEN i = published[f] /\ i # after
     ELSE IF f \in Channels /\ after = 0 THEN i > published[f] - Limit
     ELSE after < i /\ i <= after + Limit}

\* A bug: the position moves to the newest item although the answer was capped.
ReachedNewest(f, after) == published[f]

\* A bug: a capped answer leaves the position where it was.
ReachedUncapped(f, after) == IF published[f] <= after + Limit THEN published[f] ELSE after

\* The position of the newest item in the answer, or the old one.
Reached(f, after) ==
  IF f \in Pages \/ (f \in Channels /\ after = 0) \/ published[f] <= after + Limit
  THEN published[f] ELSE after + Limit

ScopeOf(f) == IF f \in Mailboxes THEN Owner[f] ELSE Public

CodesOf(f, I) == (UNION {Content[f][i] : i \in I}) \X {ScopeOf(f)}

-----------------------------------------------------------------------------
(* A poll                                                                  *)

Upset == upsets < MaxUpsets /\ upsets' = upsets + 1

Goto(p, where) == pc' = [pc EXCEPT ![p] = where]

\* The feeds of source n there are: a mailbox goes with its account.
FeedsOf(n) == {f \in Registry[n] : f \in Mailboxes => Exists(Owner[f])}

\* The next source, or the end of the poll.
Enter(p, n) ==
  IF n <= Len(Registry)
  THEN /\ Goto(p, [at |-> "reading"])
       /\ source' = [source EXCEPT ![p] = n]
       /\ left' = [left EXCEPT ![p] = FeedsOf(n)]
  ELSE /\ Goto(p, [at |-> "idle"])
       /\ source' = [source EXCEPT ![p] = 0]
       /\ left' = [left EXCEPT ![p] = {}]

StartPoll(p) ==
  /\ pc[p].at = "idle"
  /\ IF p = Service THEN UNCHANGED upsets ELSE Upset
  /\ Enter(p, 1)
  /\ UNCHANGED <<repoVars, published, down, position, found, passedOver, dropped>>

Ask(p) ==
  /\ pc[p].at = "reading"
  /\ \E f \in left[p] :
       /\ Goto(p, [at |-> "asked", feed |-> f, n |-> position[f]])
       /\ left' = [left EXCEPT ![p] = @ \ {f}]
  /\ UNCHANGED <<repoVars, published, down, position, source, found, passedOver,
                 dropped, upsets>>

\* The answer is there.  With nothing new there is no position to save, except
\* that a mailbox writes back the one it has.  A page with no code on it is
\* taken for a broken one (Fail) and is no version here.
Answer(p, f) ==
  /\ pc[p].at = "asked"
  /\ pc[p].feed = f
  /\ f \notin down
  /\ f \in Pages => published[f] # 0
  /\ LET new == New(f, pc[p].n) IN
       /\ found' = [found EXCEPT ![p] = @ \union CodesOf(f, new)]
       /\ Goto(p, IF new = {} /\ f \notin Mailboxes
                  THEN [at |-> "reading"]
                  ELSE [at |-> "answered", feed |-> f, n |-> Reached(f, pc[p].n),
                        from |-> pc[p].n])
  /\ passedOver' = IF f \in Channels /\ pc[p].n = 0
                   THEN [passedOver EXCEPT
                           ![f] = @ \union {i \in Items(f) : i + Limit <= published[f]}]
                   ELSE passedOver
  /\ UNCHANGED <<repoVars, published, down, position, source, left, dropped, upsets>>

\* A bug: a feed that fails is tried again in the same poll.
FailPuttingBack(p) ==
  /\ pc[p].at = "asked"
  /\ Goto(p, [at |-> "reading"])
  /\ left' = [left EXCEPT ![p] = @ \union {pc[p].feed}]
  /\ UNCHANGED <<repoVars, published, down, position, source, found, passedOver,
                 dropped, upsets>>

\* A bug: the failure is not caught, and ends the poll of all sources.
FailUncaught(p) ==
  /\ pc[p].at = "asked"
  /\ Enter(p, Len(Registry) + 1)
  /\ found' = [found EXCEPT ![p] = {}]
  /\ dropped' = dropped \union found[p]
  /\ UNCHANGED <<repoVars, published, down, position, passedOver, upsets>>

\* A source or a mailbox that fails is logged and left for the next poll.
Fail(p) ==
  /\ pc[p].at = "asked"
  /\ Goto(p, [at |-> "reading"])
  /\ UNCHANGED <<repoVars, published, down, position, source, left, found, passedOver,
                 dropped, upsets>>

\* kv_set.  A page that came without an ETag saves none.
Save(p) ==
  /\ pc[p].at = "answered"
  /\ \/ position' = [position EXCEPT ![pc[p].feed] = pc[p].n]
     \/ pc[p].feed \in Pages /\ UNCHANGED position
  /\ Goto(p, [at |-> "reading"])
  /\ UNCHANGED <<repoVars, published, down, source, left, found, passedOver,
                 dropped, upsets>>

\* poll_source has its list.
AllRead(p) ==
  /\ pc[p].at = "reading"
  /\ left[p] = {}
  /\ Goto(p, [at |-> "storing"])
  /\ UNCHANGED <<repoVars, published, down, position, source, left, found, passedOver,
                 dropped, upsets>>

Store(p) ==
  /\ pc[p].at = "storing"
  /\ \E d \in found[p] :
       /\ AddCode(d[1], d[2])
       /\ found' = [found EXCEPT ![p] = @ \ {d}]
  /\ UNCHANGED <<published, down, position, pc, source, left, passedOver, dropped, upsets>>

\* A bug: the codes of a poll that was given up are kept for the next one.
StopKeepingFound(p) ==
  /\ Enter(p, Len(Registry) + 1)
  /\ UNCHANGED <<found, dropped>>

\* The poll is over: it lets go of all it has.
Stop(p) ==
  /\ Enter(p, Len(Registry) + 1)
  /\ found' = [found EXCEPT ![p] = {}]
  /\ dropped' = dropped \union found[p]

\* The account was removed after its mailbox was read.  add_code is outside
\* poll_source's try, so the IntegrityError ends the poll of all sources.
StoreRaises(p) ==
  /\ pc[p].at = "storing"
  /\ \E d \in found[p] : ~CanAddCode(d[1], d[2])
  /\ Stop(p)
  /\ UNCHANGED <<repoVars, published, down, position, passedOver, upsets>>

NextSource(p) ==
  /\ pc[p].at = "storing"
  /\ found[p] = {}
  /\ Enter(p, source[p] + 1)
  /\ UNCHANGED <<repoVars, published, down, position, found, passedOver, dropped, upsets>>

-----------------------------------------------------------------------------
(* Everything else                                                         *)

Publish(f) ==
  /\ published[f] < Len(Content[f])
  /\ published' = [published EXCEPT ![f] = @ + 1]
  /\ UNCHANGED <<repoVars, down, position, pollVars, passedOver, dropped, upsets>>

Crash(p) ==
  /\ Upset
  /\ pc[p].at # "idle"
  /\ Stop(p)
  /\ UNCHANGED <<repoVars, published, down, position, passedOver>>

\* `icr account remove`: its personal codes and mailboxes go with it.
Remove(a) ==
  /\ Upset
  /\ RemoveAccount(a)
  /\ dropped' = dropped \union ({c \in Codes : codes[c] = a} \X Accounts)
  /\ UNCHANGED <<published, down, position, pollVars, passedOver>>

\* `icr source reset`: the positions of one source are forgotten.
Reset(n) ==
  /\ Upset
  /\ position' = [f \in Feeds |-> IF f \in Registry[n] THEN 0 ELSE position[f]]
  /\ UNCHANGED <<repoVars, published, down, pollVars, passedOver, dropped>>

PollStep(p) ==
  \/ Ask(p) \/ (\E f \in Feeds : Answer(p, f)) \/ Fail(p) \/ Save(p)
  \/ AllRead(p) \/ Store(p) \/ StoreRaises(p) \/ NextSource(p)

Next ==
  \/ \E p \in Pollers : StartPoll(p) \/ PollStep(p) \/ Crash(p)
  \/ \E f \in Feeds : Publish(f)
  \/ \E a \in Accounts : Remove(a)
  \/ \E n \in DOMAIN Registry : Reset(n)

Spec == Init /\ [][Next]_vars

\* The service polls again and again, and every poll takes its steps: a request
\* ends by timeout.  A server that is not down answers some day, if the service
\* asks it over and over; of one that is down nothing is assumed.
Fairness ==
  /\ WF_vars(StartPoll(Service))
  /\ \A p \in Pollers : WF_vars(PollStep(p))
  /\ \A f \in Feeds : SF_vars(Answer(Service, f))

FairSpec == Spec /\ Fairness

-----------------------------------------------------------------------------
(* Properties                                                              *)

\* On file in the scope it came with.  A personal code is also settled by
\* being on file for another account or for all: the first scope wins, and a
\* public one wins over that.
OnFile(d) == IF d[2] = Public THEN codes[d[1]] = Public ELSE codes[d[1]] # Absent

InHands(d) == \E p \in Pollers : d \in found[p]

\* The items a position claims to be done with.
Covered(f, n) == IF f \in Pages THEN {n} \ {0} ELSE 1 .. n

Accounted(f, i) ==
  \/ i \in passedOver[f]
  \/ \A d \in CodesOf(f, {i}) : OnFile(d) \/ InHands(d) \/ d \in dropped

\* The position of a feed never covers an item whose codes are neither on file
\* nor on their way there, whatever polls overlap and however many items there
\* are beyond the limit.  What may be missing is known by name: items older
\* than a read without position, and codes whose poller died or gave up
\* (poll_source: store everything the source returned).
NothingSkipped == \A f \in Feeds : \A i \in Covered(f, position[f]) : Accounted(f, i)

\* "A code already on file is never re-scoped narrower" (add_code), whichever
\* of several sources delivers it first.
NeverNarrowed ==
  [][\A c \in Codes : /\ codes[c] = Public => codes'[c] = Public
                      /\ codes[c] \in Accounts => codes'[c] \in {codes[c], Public, Absent}]_vars

\* Every item published by a feed whose server ever answers is eventually on
\* file, accounted for otherwise, or, on a page, no longer listed.  So a backlog
\* beyond the limit is caught up with, and feeds that fail at every poll, however
\* many, do not hold up the others (poll_source: "a broken source must not take
\* the service down").
Gone(f, i) == \A d \in CodesOf(f, {i}) : OnFile(d) \/ d \in dropped

Caught ==
  \A f \in Feeds : \A i \in 1 .. published[f] :
    \/ Gone(f, i)
    \/ i \in passedOver[f]
    \/ f \in down
    \/ f \in Pages /\ i # published[f]
    \/ f \in Mailboxes /\ ~Exists(Owner[f])

Collected == <>[]Caught

\* A poll gets done, however much is published meanwhile and whoever fails:
\* each of its steps takes it to a later source or to its end, takes a feed or a
\* code off its list, or brings it closer to that.  So it holds the lock for a
\* number of requests known when it starts.
Stage(p) ==
  CASE pc[p].at = "asked" -> 3
    [] pc[p].at = "answered" -> 2
    [] pc[p].at = "reading" -> 1
    [] OTHER -> 0
Smaller(S, T) == S \subseteq T /\ S # T
Closer(p) ==
  \/ pc'[p].at = "idle"
  \/ source'[p] > source[p]
  \/ /\ source'[p] = source[p]
     /\ \/ Smaller(left'[p], left[p])
        \/ left'[p] = left[p] /\ Stage(p)' < Stage(p)
        \/ left'[p] = left[p] /\ pc'[p] = pc[p] /\ Smaller(found'[p], found[p])
PollAdvances ==
  [][\A p \in Pollers :
       pc[p].at # "idle"
       => Closer(p) \/ UNCHANGED <<pc[p], source[p], left[p], found[p]>>]_vars

\* discord-bot.md: "`icr source reset discord` forgets the source's position so
\* the next poll re-reads the most recent messages": a position that was reset
\* is only replaced by a read that started without one.
ResetHolds ==
  [][\A f \in Feeds : position[f] = 0 /\ position'[f] # 0
       => \E p \in Pollers : /\ pc[p].at = "answered" /\ pc[p].feed = f
                              /\ pc[p].from = 0]_vars

\* email-source.md: "Codes already extracted are still on file, so only recent
\* mail needs covering": what a mailbox's position covers is on file, or in the
\* hands of a poll, as long as the account is there.
ExtractedIsOnFile ==
  \A f \in Mailboxes : \A i \in Covered(f, position[f]) :
    \A d \in CodesOf(f, {i}) : Exists(Owner[f]) => OnFile(d) \/ InHands(d)
=============================================================================
