------------------------------- MODULE ImapScan -------------------------------
(***************************************************************************)
(* Reading one mailbox over IMAP: scan_mailbox of mail/imap.py, and        *)
(* _poll_one of sources/email_inbox.py around it.                          *)
(*                                                                         *)
(* A scan looks up the positions of all folders, reads one folder after    *)
(* the other with three requests (STATUS, a search, a fetch), and saves    *)
(* all positions at the end.  The mailbox goes on living meanwhile: mail   *)
(* arrives and is expunged between the requests, and a folder may be       *)
(* recreated, which gives it a new UIDVALIDITY and its mail new UIDs.      *)
(*                                                                         *)
(* Readers are the service and `icr poll` commands, each with a connection *)
(* of its own.                                                             *)
(***************************************************************************)
EXTENDS Integers, FiniteSets

CONSTANTS
  Folders,         \* the selectable folders
  Messages,        \* the messages that may ever arrive
  Home,            \* [Messages -> Folders]
  Matching,        \* those from a watched sender
  Old,             \* those dated before the rescan window (email_rescan_days)
  Limit,           \* email_max_messages_per_folder
  Readers,
  MaxFaults,       \* bound: requests that fail and scans given up
  MaxRenumberings  \* bound: folders recreated

ASSUME ImapAssumption ==
  /\ Home \in [Messages -> Folders]
  /\ IsFiniteSet(Messages)
  /\ Matching \subseteq Messages
  /\ Limit \in Nat \ {0}
  /\ MaxFaults \in Nat
  /\ MaxRenumberings \in Nat

VARIABLES
  uid,             \* [Messages -> UID]: 0 for a message that is not there
  expunged,        \* the messages that were there once
  uidnext,         \* [Folders -> the UID the next message gets]
  uidvalidity,     \* [Folders -> UIDVALIDITY]
  silent,          \* the folders for which the server refuses every STATUS
  cursor,          \* [Folders -> FolderCursor]: the saved positions
  pc,              \* where each reader is
  todo,            \* [Readers -> folders not read yet]
  cursors,         \* [Readers -> [Folders -> FolderCursor]]: the scan's own map
  read,            \* [Readers -> messages found by this scan]
  delivered,       \* the messages some finished scan has returned
  mishaps,         \* history: [Folders -> what happened to it]
  faults           \* number of failed requests and scans so far

serverVars == <<uid, expunged, uidnext, uidvalidity, silent>>
vars == <<serverVars, cursor, pc, todo, cursors, read, delivered, mishaps, faults>>

\* UIDVALIDITY 0 stands for None: the folder has no position, or the server
\* will not say.
NoCursor == [uidvalidity |-> 0, uid |-> 0]
FolderCursor == [uidvalidity: Nat \ {0}, uid: Nat \ {0}] \union {NoCursor}

\* "idle", "between" two folders; or in a folder: after STATUS, with what it
\* said, and after the search, with what that found.
PCs == [at: {"idle", "between"}]
         \union [at: {"status"}, folder: Folders, uidvalidity: Nat, uidnext: Nat]
         \union [at: {"listed"}, folder: Folders, uidvalidity: Nat, uidnext: Nat,
                 hits: SUBSET Matching]

TypeOK ==
  /\ uid \in [Messages -> Nat]
  /\ expunged \in SUBSET Messages
  /\ uidnext \in [Folders -> Nat \ {0}]
  /\ uidvalidity \in [Folders -> Nat \ {0}]
  /\ silent \in SUBSET Folders
  /\ cursor \in [Folders -> FolderCursor]
  /\ pc \in [Readers -> PCs]
  /\ todo \in [Readers -> SUBSET Folders]
  /\ cursors \in [Readers -> [Folders -> FolderCursor]]
  /\ read \in [Readers -> SUBSET Matching]
  /\ delivered \in SUBSET Matching
  /\ mishaps \in [Folders -> SUBSET {"renumbered", "refused", "short"}]
  /\ faults \in 0 .. MaxFaults

Init ==
  /\ uid = [m \in Messages |-> 0]
  /\ expunged = {}
  /\ uidnext = [f \in Folders |-> 1]
  /\ uidvalidity = [f \in Folders |-> 1]
  /\ silent \in SUBSET Folders
  /\ cursor = [f \in Folders |-> NoCursor]
  /\ pc = [r \in Readers |-> [at |-> "idle"]]
  /\ todo = [r \in Readers |-> {}]
  /\ cursors = [r \in Readers |-> [f \in Folders |-> NoCursor]]
  /\ read = [r \in Readers |-> {}]
  /\ delivered = {}
  /\ mishaps = [f \in Folders |-> {}]
  /\ faults = 0

-----------------------------------------------------------------------------
(* The mailbox                                                             *)

In(f) == {m \in Messages : Home[m] = f /\ uid[m] # 0}

Arrive(m) ==
  /\ uid[m] = 0
  /\ m \notin expunged
  /\ uid' = [uid EXCEPT ![m] = uidnext[Home[m]]]
  /\ uidnext' = [uidnext EXCEPT ![Home[m]] = @ + 1]
  /\ UNCHANGED <<expunged, uidvalidity, silent, cursor, pc, todo, cursors, read, delivered,
                 mishaps, faults>>

\* The readers that have searched f and not fetched from it yet.
Listed(f) == {r \in Readers : pc[r].at = "listed" /\ pc[r].folder = f}

\* Deleted, or moved to another folder.  A fetch skips it without a word.
Expunge(m) ==
  /\ uid[m] # 0
  /\ uid' = [uid EXCEPT ![m] = 0]
  /\ expunged' = expunged \union {m}
  /\ mishaps' = IF \E r \in Listed(Home[m]) : m \in pc[r].hits
                THEN [mishaps EXCEPT ![Home[m]] = @ \union {"short"}] ELSE mishaps
  /\ UNCHANGED <<uidnext, uidvalidity, silent, cursor, pc, todo, cursors, read, delivered,
                 faults>>

\* The folder is recreated: its mail keeps its order and is counted from 1.
\* Not while a reader has it selected.
Renumber(f) ==
  /\ uidvalidity[f] <= MaxRenumberings
  /\ Listed(f) = {}
  /\ uidvalidity' = [uidvalidity EXCEPT ![f] = @ + 1]
  /\ uid' = [m \in Messages |->
               IF m \in In(f) THEN Cardinality({k \in In(f) : uid[k] <= uid[m]}) ELSE uid[m]]
  /\ uidnext' = [uidnext EXCEPT ![f] = Cardinality(In(f)) + 1]
  /\ mishaps' = [mishaps EXCEPT ![f] = @ \union {"renumbered"}]
  /\ UNCHANGED <<expunged, silent, cursor, pc, todo, cursors, read, delivered, faults>>

-----------------------------------------------------------------------------
(* A scan                                                                  *)

Goto(r, where) == pc' = [pc EXCEPT ![r] = where]

Fault == faults < MaxFaults /\ faults' = faults + 1

StartScan(r) ==
  /\ pc[r].at = "idle"
  /\ Goto(r, [at |-> "between"])
  /\ todo' = [todo EXCEPT ![r] = Folders]
  /\ cursors' = [cursors EXCEPT ![r] = cursor]
  /\ read' = [read EXCEPT ![r] = {}]
  /\ UNCHANGED <<serverVars, cursor, delivered, mishaps, faults>>

\* _folder_status.  A server may report UIDVALIDITY without UIDNEXT, which
\* counts as an UIDNEXT of 1: it raises no position.
Status(r, f) ==
  /\ pc[r].at = "between"
  /\ f \in todo[r] \ silent
  /\ \E n \in {1, uidnext[f]} :
       Goto(r, [at |-> "status", folder |-> f, uidvalidity |-> uidvalidity[f], uidnext |-> n])
  /\ todo' = [todo EXCEPT ![r] = @ \ {f}]
  /\ UNCHANGED <<serverVars, cursor, cursors, read, delivered, mishaps, faults>>

StatusRefused(r, f) ==
  /\ pc[r].at = "between"
  /\ f \in todo[r]
  /\ IF f \in silent THEN UNCHANGED faults ELSE Fault
  /\ Goto(r, [at |-> "status", folder |-> f, uidvalidity |-> 0, uidnext |-> 1])
  /\ todo' = [todo EXCEPT ![r] = @ \ {f}]
  /\ mishaps' = [mishaps EXCEPT ![f] = @ \union {"refused"}]
  /\ UNCHANGED <<serverVars, cursor, cursors, read, delivered>>

\* _window_for: the position counts only under the UIDVALIDITY it was taken.
Positioned(r) ==
  /\ pc[r].uidvalidity # 0
  /\ cursors[r][pc[r].folder].uidvalidity = pc[r].uidvalidity

Floor(r) == IF Positioned(r) THEN cursors[r][pc[r].folder].uid ELSE 0

\* What the search asks for: what comes after the position, or everything, or
\* what the rescan window holds if there was a position once.  A UID range
\* ending in * has the newest message of the folder in any case.
Wanted(r) ==
  LET f == pc[r].folder IN
  {m \in In(f) \intersect Matching :
     IF Positioned(r)
     THEN uid[m] > Floor(r) \/ \A k \in In(f) : uid[k] <= uid[m]
     ELSE cursors[r][f] # NoCursor => m \notin Old}

\* The oldest Limit of the messages in S.
IsCapped(H, S) ==
  \/ H = S /\ Cardinality(S) <= Limit
  \/ Cardinality(H) = Limit /\ \A h \in H, m \in S \ H : uid[h] < uid[m]

Search(r) ==
  /\ pc[r].at = "status"
  /\ \E H \in SUBSET Wanted(r) :
       /\ IsCapped(H, Wanted(r))
       /\ Goto(r, [at |-> "listed", folder |-> pc[r].folder, hits |-> H,
                   uidvalidity |-> pc[r].uidvalidity, uidnext |-> pc[r].uidnext])
  /\ UNCHANGED <<serverVars, cursor, todo, cursors, read, delivered, mishaps, faults>>

\* The messages the fetch returns, and those the loop keeps.
Fetched(r) == {m \in pc[r].hits : uid[m] # 0}

\* A bug: the newest message is taken again although it is before the position.
KeptWithStar(r) == Fetched(r)

Kept(r) == {m \in Fetched(r) : uid[m] > Floor(r)}

\* A bug: the position moves to UIDNEXT - 1 although the read was capped.
ClaimsUncapped(r) == {Floor(r), pc[r].uidnext - 1} \union {uid[m] : m \in Kept(r)}

\* _advance: the new position is the greatest of these.
Claims(r) ==
  {Floor(r)} \union {uid[m] : m \in Kept(r)}
    \union (IF Cardinality(Fetched(r)) >= Limit THEN {} ELSE {pc[r].uidnext - 1})

\* A bug: a UID with nothing to qualify it is stored all the same.
AdvancedUnqualified(r, n) ==
  IF n = 0 THEN cursors
  ELSE [cursors EXCEPT ![r][pc[r].folder] = [uidvalidity |-> pc[r].uidvalidity, uid |-> n]]

Advanced(r, n) ==
  IF n = 0 \/ pc[r].uidvalidity = 0 THEN cursors
  ELSE [cursors EXCEPT ![r][pc[r].folder] = [uidvalidity |-> pc[r].uidvalidity, uid |-> n]]

Fetch(r) ==
  /\ pc[r].at = "listed"
  /\ read' = [read EXCEPT ![r] = @ \union Kept(r)]
  /\ \E n \in Claims(r) :
       /\ \A k \in Claims(r) : k <= n
       /\ cursors' = Advanced(r, n)
  /\ Goto(r, [at |-> "between"])
  /\ UNCHANGED <<serverVars, cursor, todo, delivered, mishaps, faults>>

\* A folder that cannot be selected or read keeps its position.
SkipFolder(r) ==
  /\ pc[r].at \in {"status", "listed"}
  /\ Fault
  /\ Goto(r, [at |-> "between"])
  /\ UNCHANGED <<serverVars, cursor, todo, cursors, read, delivered, mishaps>>

\* A bug: the codes are returned but the positions are not saved.
SaveUnsaved(r) ==
  /\ pc[r].at = "between"
  /\ todo[r] = {}
  /\ delivered' = delivered \union read[r]
  /\ Goto(r, [at |-> "idle"])
  /\ UNCHANGED <<serverVars, cursor, todo, cursors, read, mishaps, faults>>

\* The scan returns its messages, and _poll_one saves all positions.
Save(r) ==
  /\ pc[r].at = "between"
  /\ todo[r] = {}
  /\ cursor' = cursors[r]
  /\ delivered' = delivered \union read[r]
  /\ Goto(r, [at |-> "idle"])
  /\ UNCHANGED <<serverVars, todo, cursors, read, mishaps, faults>>

\* The connection breaks, or the process dies: nothing is saved.
GiveUp(r) ==
  /\ pc[r].at # "idle"
  /\ Fault
  /\ Goto(r, [at |-> "idle"])
  /\ todo' = [todo EXCEPT ![r] = {}]
  /\ UNCHANGED <<serverVars, cursor, cursors, read, delivered, mishaps>>

ScanStep(r) ==
  \/ StartScan(r) \/ Search(r) \/ Fetch(r) \/ Save(r) \/ SkipFolder(r) \/ GiveUp(r)
  \/ \E f \in Folders : Status(r, f) \/ StatusRefused(r, f)

Next ==
  \/ \E r \in Readers : ScanStep(r)
  \/ \E m \in Messages : Arrive(m) \/ Expunge(m)
  \/ \E f \in Folders : Renumber(f)

Spec == Init /\ [][Next]_vars

\* The service scans again and again, and every request ends by timeout.
FairSpec == Spec /\ \A r \in Readers : WF_vars(ScanStep(r))

-----------------------------------------------------------------------------
(* Properties                                                              *)

\* The position says that m has been dealt with.
Claimed(c, m) ==
  /\ uid[m] # 0
  /\ c.uidvalidity = uidvalidity[Home[m]]
  /\ uid[m] <= c.uid

\* A recreated folder is re-read only as far as the rescan window goes, and a
\* read that lost messages between search and fetch takes its answer for
\* complete.
Excused(m) ==
  \/ m \in Old /\ "renumbered" \in mishaps[Home[m]]
  \/ "short" \in mishaps[Home[m]]

\* A position never passes a matching message that no scan has returned: not
\* one that arrives during the scan, none of a backlog beyond the limit, none
\* of a recreated folder (_advance: a capped read only claims what it read).
NothingStranded ==
  \A m \in Matching : Claimed(cursor[Home[m]], m) => m \in delivered \/ Excused(m)

\* scan_mailbox: "a message is fetched and parsed once rather than on every
\* poll".  Where a single reader meets neither a recreated folder nor a refused
\* STATUS, no scan finds what an earlier one has returned.
FetchedOnce ==
  \A r \in Readers : \A m \in read[r] :
    /\ Readers = {r}
    /\ pc[r].at # "idle"
    /\ mishaps[Home[m]] \subseteq {"short"}
    => m \notin delivered

\* Every matching message is returned some day or gone, once requests stop
\* failing: a backlog beyond the limit is caught up with over several scans
\* (email-source.md: "rather than stranding the older half"), whatever becomes of
\* the other folders.  A folder that has no STATUS keeps no position, and every
\* scan reads its oldest mail again: there only that is sure to be read, although
\* _window_for holds that the re-read saves "a miss".
Ahead(m) == {k \in Matching : k # m /\ Home[k] = Home[m] /\ uid[k] \in 1 .. uid[m]}
InReach(m) == Home[m] \in silent => Cardinality(Ahead(m)) < Limit
EventuallyDelivered ==
  \A m \in Matching :
    uid[m] # 0 /\ InReach(m) ~> m \in delivered \/ m \in expunged \/ Excused(m)

\* _advance: "A capped read only claims what it actually read, so the remainder
\* is picked up rather than skipped."
RemainderPickedUp ==
  \A m \in Matching :
    Claimed(cursor[Home[m]], m) /\ uidvalidity[Home[m]] = 1 => m \in delivered
=============================================================================
