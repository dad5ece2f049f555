------------------------------ MODULE KeyStore ------------------------------
(***************************************************************************)
(* The key files of one agent home (client, keystore.rs).                  *)
(*                                                                         *)
(* The home holds the operating key, the successor the operating key has   *)
(* committed to, and, while a rotation is under way, a staged next         *)
(* successor and a journal.  Retired keys live in a directory of exact     *)
(* pairs, a .key file and the .json journal of the rotation that retired   *)
(* it, until the signed grace interval is over.                            *)
(*                                                                         *)
(* Several processes may use the home.  A file lock orders them: whoever   *)
(* takes it first finishes the rotation it finds in the journal.  Each     *)
(* file operation below is one step, so that a process can die between any *)
(* two of them.  Keys are numbered in the order they are generated.  The   *)
(* token secret, which no rotation touches, and the move of a successor    *)
(* from the layout of old releases are left out.                           *)
(***************************************************************************)
EXTENDS Integers, FiniteSets

CONSTANTS
    Proc,       \* processes that open the home
    Nobody,     \* the holder of a free lock
    MaxLive,    \* MAX_LIVE_RETIRED_IDENTITIES
    Grace,      \* ROTATION_GRACE_SECS
    Terms,      \* what a record says beside its keys: lofts, work, attribution
    MaxKey,     \* bound: keys that may be generated
    MaxTime,    \* bound of the clock
    MaxFaults   \* bound: deaths and file errors in the middle of an operation

ASSUME KeyStoreAssumption ==
    /\ MaxLive \in Nat \ {0}
    /\ Grace \in Nat \ {0}
    /\ {MaxKey, MaxTime, MaxFaults} \subseteq Nat
    /\ Terms \subseteq Nat
    /\ Nobody \notin Proc

VARIABLES
    operating,  \* identity.key
    successor,  \* recovery/successor.key
    staged,     \* recovery/next-successor.key
    journal,    \* rotation.pending.json
    retired,    \* stems of retired/*.key
    metadata,   \* retired/*.json, the journals that name the retired keys
    remnant,    \* a temporary file stands in retired/
    lease,      \* who holds rotation.lock, for what, and how far it is
    cached,     \* the identity each process has opened
    made,       \* keys generated so far
    signed,     \* history: every rotation that was ever durable in the journal
    now,        \* the clock of the machine
    faults      \* faults so far

files == <<operating, successor, staged, journal, retired, metadata, remnant>>

keyVars == <<files, lease, cached, made, signed, now, faults>>

NoKey == 0

Key == 1 .. MaxKey

\* RotationJournal: the signed transition, the sequence number of the target
\* record and the routing terms that the source and target records share.
Rotation == [from : Key, to : Key, next : Key, seq : Nat, at : Nat, terms : Nat]

NoJournal == [from |-> NoKey, to |-> NoKey, next |-> NoKey, seq |-> 0,
              at |-> 0, terms |-> 0]

Free == [by |-> Nobody, goal |-> "none", at |-> "none", stem |-> NoKey,
         time |-> 0]

Steps == {"recover", "create", "scan", "unlink", "stage", "journal", "retain",
          "publish", "promote", "succeed", "note", "unstage", "unjournal",
          "opened", "leased", "listed", "rotated"}

KeyTypeOK ==
    /\ {operating, successor, staged} \subseteq Key \cup {NoKey}
    /\ journal \in Rotation \cup {NoJournal}
    /\ retired \subseteq Key
    /\ metadata \subseteq Rotation
    /\ remnant \in BOOLEAN
    /\ lease = Free \/ /\ lease.by \in Proc
                       /\ lease.goal \in {"open", "use", "rotate"}
                       /\ lease.at \in Steps
                       /\ lease.stem \in Key \cup {NoKey}
                       /\ lease.time \in Nat
    /\ cached \in [Proc -> Key \cup {NoKey}]
    /\ made \in 0 .. MaxKey
    /\ signed \subseteq Rotation
    /\ now \in 0 .. MaxTime
    /\ faults \in 0 .. MaxFaults

KeyInit ==
    /\ operating = NoKey /\ successor = NoKey /\ staged = NoKey
    /\ journal = NoJournal
    /\ retired = {} /\ metadata = {} /\ remnant = FALSE
    /\ lease = Free
    /\ cached = [p \in Proc |-> NoKey]
    /\ made = 0 /\ signed = {} /\ now = 1 /\ faults = 0

-----------------------------------------------------------------------------
(***************************************************************************)
(* The lock and what a process may want it for.                            *)
(***************************************************************************)
At(s) == lease.at = s

GoTo(s) == lease' = [lease EXCEPT !.at = s]

\* Every list of the retired directory is preceded by a look at the clock.
GoScan == lease' = [lease EXCEPT !.at = "scan", !.time = now]

\* load_or_create, called by Agent::open.
Open(p) ==
    /\ lease = Free
    /\ cached[p] = NoKey
    /\ lease' = [Free EXCEPT !.by = p, !.goal = "open", !.at = "recover"]
    /\ UNCHANGED <<files, cached, made, signed, now, faults>>

\* acquire_active_identity_lease, called before any use of the cached key.
Acquire(p) ==
    /\ lease = Free
    /\ cached[p] # NoKey
    /\ lease' = [Free EXCEPT !.by = p, !.goal = "use", !.at = "recover"]
    /\ UNCHANGED <<files, cached, made, signed, now, faults>>

\* An error returns to the caller, which drops the lock.
Fail ==
    /\ lease' = Free
    /\ UNCHANGED <<files, cached, made, signed, now, faults>>

Release ==
    /\ lease.at \in {"leased", "listed"}
    /\ Fail

-----------------------------------------------------------------------------
(***************************************************************************)
(* retired_identities_and_live_count_locked.  Any entry that is not half   *)
(* of a pair is an error, except the key the pending journal retires.      *)
(***************************************************************************)
Noted == {m.from : m \in metadata}

Unpaired == (retired \ Noted) \cup (Noted \ retired)

Tolerated == (retired \ Noted) \cap {journal.from}

ScanTime == IF journal = NoJournal THEN lease.time ELSE journal.at

Overdue(t) ==
    {m.from : m \in {n \in metadata : n.from \in retired /\ t >= n.at + Grace}}

LiveCount == Cardinality((retired \cap Noted) \ Overdue(ScanTime))

TooManyEntries == Cardinality(retired) + Cardinality(Noted) > 2 * MaxLive

\* The directory is listed first; pairs are then visited in the order of
\* their names, which for random keys is any order.
ScanRefused ==
    /\ At("scan")
    /\ remnant \/ TooManyEntries \/ Unpaired \ Tolerated # {}
    /\ Fail

ScanUnlinkKey ==
    /\ At("scan")
    /\ ~ remnant /\ ~ TooManyEntries
    /\ \E k \in Overdue(ScanTime) :
         /\ retired' = retired \ {k}
         /\ lease' = [lease EXCEPT !.at = "unlink", !.stem = k]
    /\ UNCHANGED <<operating, successor, staged, journal, metadata, remnant,
                   cached, made, signed, now, faults>>

ScanUnlinkMetadata ==
    /\ At("unlink")
    /\ metadata' = {m \in metadata : m.from # lease.stem}
    /\ lease' = [lease EXCEPT !.at = "scan", !.stem = NoKey]
    /\ UNCHANGED <<operating, successor, staged, journal, retired, remnant,
                   cached, made, signed, now, faults>>

\* Every entry was visited and every overdue pair removed.
Listed ==
    /\ At("scan")
    /\ ~ remnant /\ ~ TooManyEntries
    /\ Unpaired \subseteq Tolerated
    /\ Overdue(ScanTime) = {}

\* Mutant: the bound on retired identities is not checked.
HasRoomAlways == TRUE

\* A rotation needs room for one more retired identity, unless the pending one
\* is already there.
HasRoom == LiveCount < MaxLive \/ journal.from \in retired

AfterScan ==
    IF journal # NoJournal THEN "retain"
    ELSE CASE lease.goal = "open"   -> "opened"
           [] lease.goal = "use"    -> "listed"
           [] lease.goal = "rotate" -> "stage"

ScanDone ==
    /\ Listed
    /\ AfterScan \in {"retain", "stage"} => HasRoom
    /\ GoTo(AfterScan)
    /\ UNCHANGED <<files, cached, made, signed, now, faults>>

\* "at most 32 identities may remain in rotation grace".
AtGraceBound ==
    /\ Listed
    /\ AfterScan \in {"retain", "stage"} /\ ~ HasRoom
    /\ Fail

-----------------------------------------------------------------------------
(***************************************************************************)
(* recover_pending_locked and load_or_create_locked.                       *)
(***************************************************************************)

\* Mutant: a pending journal is thrown away instead of completed.
RecoverForgetting ==
    /\ At("recover")
    /\ staged' = NoKey /\ journal' = NoJournal
    /\ \/ lease.goal = "open" /\ operating = NoKey /\ GoTo("create")
       \/ lease.goal = "open" /\ operating # NoKey /\ GoScan
       \/ lease.goal = "use" /\ operating = cached[lease.by] /\ GoTo("leased")
    /\ UNCHANGED <<operating, successor, retired, metadata, remnant, cached,
                   made, signed, now, faults>>

\* A journal is completed; without one a staged successor is of no use.
Recover ==
    /\ At("recover")
    /\ \/ journal # NoJournal /\ GoScan /\ UNCHANGED staged
       \/ /\ journal = NoJournal
          /\ staged' = NoKey
          /\ \/ lease.goal = "open" /\ operating = NoKey /\ GoTo("create")
             \/ lease.goal = "open" /\ operating # NoKey /\ GoScan
             \/ /\ lease.goal = "use" /\ operating = cached[lease.by]
                /\ GoTo("leased")
    /\ UNCHANGED <<operating, successor, journal, retired, metadata, remnant,
                   cached, made, signed, now, faults>>

\* "agent identity changed on disk; reopen the agent before using its key".
IdentityChanged ==
    /\ At("recover")
    /\ journal = NoJournal
    /\ lease.goal = "use" /\ operating # cached[lease.by]
    /\ lease' = Free
    /\ staged' = NoKey
    /\ UNCHANGED <<operating, successor, journal, retired, metadata, remnant,
                   cached, made, signed, now, faults>>

\* First run: the successor is durable before the operating key.
CreateSuccessor ==
    /\ At("create")
    /\ successor = NoKey /\ made < MaxKey
    /\ successor' = made + 1 /\ made' = made + 1
    /\ UNCHANGED <<operating, staged, journal, retired, metadata, remnant,
                   lease, cached, signed, now, faults>>

CreateOperating ==
    /\ At("create")
    /\ successor # NoKey /\ made < MaxKey
    /\ operating' = made + 1 /\ made' = made + 1
    /\ GoScan
    /\ UNCHANGED <<successor, staged, journal, retired, metadata, remnant,
                   cached, signed, now, faults>>

\* The keys are read and the lock is dropped.
Opened ==
    /\ At("opened")
    /\ cached' = [cached EXCEPT ![lease.by] = operating]
    /\ lease' = Free
    /\ UNCHANGED <<files, made, signed, now, faults>>

\* retired_identities_with_lease, in drain and in rotate_expected.
ListRetired ==
    /\ At("leased")
    /\ GoScan
    /\ UNCHANGED <<files, cached, made, signed, now, faults>>

-----------------------------------------------------------------------------
(***************************************************************************)
(* prepare_rotation_locked: until the journal is durable nothing of the    *)
(* transition can be seen.                                                 *)
(***************************************************************************)
BeginRotation ==
    /\ At("leased")
    /\ lease' = [lease EXCEPT !.goal = "rotate", !.at = "scan", !.time = now]
    /\ UNCHANGED <<files, cached, made, signed, now, faults>>

StageSuccessor ==
    /\ At("stage")
    /\ made < MaxKey
    /\ staged' = made + 1 /\ made' = made + 1
    /\ GoTo("journal")
    /\ UNCHANGED <<operating, successor, journal, retired, metadata, remnant,
                   cached, signed, now, faults>>

\* The rotation is signed against the source record, which has sequence number
\* seq; the target record takes over its terms.
WriteJournal(seq, terms) ==
    LET rotation == [from |-> operating, to |-> successor, next |-> staged,
                     seq |-> seq + 1, at |-> lease.time, terms |-> terms]
    IN  /\ At("journal")
        /\ journal' = rotation
        /\ signed' = signed \cup {rotation}
        /\ GoScan
        /\ UNCHANGED <<operating, successor, staged, retired, metadata,
                       remnant, cached, made, now, faults>>

-----------------------------------------------------------------------------
(***************************************************************************)
(* complete_rotation_locked, run by the process that wrote the journal or  *)
(* by the next one to take the lock.  Its errors for a key that is in none *)
(* of the places it looks have no action: JournalIsCompletable says that   *)
(* they do not occur.                                                      *)
(***************************************************************************)

\* Mutant: the outgoing key is not copied before it is replaced.
RetainNothing ==
    /\ At("retain")
    /\ GoTo("promote")
    /\ UNCHANGED <<files, cached, made, signed, now, faults>>

\* create_key_once writes a temporary file beside its destination ...
Retain ==
    /\ At("retain")
    /\ \/ journal.from \in retired /\ GoTo("promote") /\ UNCHANGED remnant
       \/ /\ journal.from \notin retired /\ operating = journal.from
          /\ remnant' = TRUE /\ GoTo("publish")
    /\ UNCHANGED <<operating, successor, staged, journal, retired, metadata,
                   cached, made, signed, now, faults>>

\* ... and renames it.
PublishRetired ==
    /\ At("publish")
    /\ retired' = retired \cup {journal.from}
    /\ remnant' = FALSE
    /\ GoTo("promote")
    /\ UNCHANGED <<operating, successor, staged, journal, metadata, cached,
                   made, signed, now, faults>>

Promote ==
    /\ At("promote")
    /\ \/ operating = journal.to /\ UNCHANGED operating
       \/ operating # journal.to /\ successor = journal.to
          /\ operating' = successor
    /\ GoTo("succeed")
    /\ UNCHANGED <<successor, staged, journal, retired, metadata, remnant,
                   cached, made, signed, now, faults>>

Succeed ==
    /\ At("succeed")
    /\ \/ successor = journal.next /\ UNCHANGED successor
       \/ successor # journal.next /\ staged = journal.next
          /\ successor' = staged
    /\ GoTo("note")
    /\ UNCHANGED <<operating, staged, journal, retired, metadata, remnant,
                   cached, made, signed, now, faults>>

\* write_retired_metadata_replacing.
Note ==
    /\ At("note")
    /\ metadata' = {m \in metadata : m.from # journal.from} \cup {journal}
    /\ GoTo("unstage")
    /\ UNCHANGED <<operating, successor, staged, journal, retired, remnant,
                   cached, made, signed, now, faults>>

Unstage ==
    /\ At("unstage")
    /\ staged' = NoKey
    /\ GoTo("unjournal")
    /\ UNCHANGED <<operating, successor, journal, retired, metadata, remnant,
                   cached, made, signed, now, faults>>

Unjournal ==
    /\ At("unjournal")
    /\ journal' = NoJournal
    /\ GoTo(IF lease.goal = "rotate" THEN "rotated" ELSE "recover")
    /\ UNCHANGED <<operating, successor, staged, retired, metadata, remnant,
                   cached, made, signed, now, faults>>

\* rotate_with_lease returns and the agent takes the new identity.
Rotated ==
    /\ At("rotated")
    /\ cached' = [cached EXCEPT ![lease.by] = operating]
    /\ lease' = Free
    /\ UNCHANGED <<files, made, signed, now, faults>>

-----------------------------------------------------------------------------
(***************************************************************************)
(* The environment: time, processes that end, files that cannot be         *)
(* written.                                                                *)
(***************************************************************************)
\* Times are only ever compared with that of a rotation, so the clock starts
\* with the first one.
Tick ==
    /\ signed # {} /\ now < MaxTime
    /\ now' = now + 1
    /\ UNCHANGED <<files, lease, cached, made, signed, faults>>

Close(p) ==
    /\ lease.by # p
    /\ cached[p] # NoKey
    /\ cached' = [cached EXCEPT ![p] = NoKey]
    /\ UNCHANGED <<files, lease, made, signed, now, faults>>

\* A process dies; the operating system drops its lock.
Die(p) ==
    /\ cached[p] # NoKey \/ lease.by = p
    /\ faults < MaxFaults
    /\ faults' = faults + 1
    /\ lease' = IF lease.by = p THEN Free ELSE lease
    /\ cached' = [cached EXCEPT ![p] = NoKey]
    /\ UNCHANGED <<files, made, signed, now>>

\* A file operation fails: the temporary file is removed and the error
\* returned.
FileError ==
    /\ lease # Free
    /\ faults < MaxFaults
    /\ faults' = faults + 1
    /\ lease' = Free
    /\ remnant' = IF At("publish") THEN FALSE ELSE remnant
    /\ UNCHANGED <<operating, successor, staged, journal, retired, metadata,
                   cached, made, signed, now>>

\* The steps that need nothing but the files.
KeyStep ==
    \/ ScanRefused \/ ScanUnlinkKey \/ ScanUnlinkMetadata \/ ScanDone
    \/ AtGraceBound \/ Recover \/ IdentityChanged
    \/ CreateSuccessor \/ CreateOperating \/ StageSuccessor
    \/ Retain \/ PublishRetired \/ Promote \/ Succeed
    \/ Note \/ Unstage \/ Unjournal

-----------------------------------------------------------------------------
(***************************************************************************)
(* What the files promise.                                                 *)
(***************************************************************************)

\* However often a rotation is cut short, started again or finished by another
\* process, at most one transition away from a key is ever signed into the
\* journal (prepare_rotation_locked, recover_pending_locked).
OneSuccessor ==
    \A r, s \in signed : r.from = s.from => r = s

\* complete_rotation_locked finds every key it asks for, whoever runs it and
\* wherever the one before it stopped.
JournalIsCompletable ==
    journal # NoJournal =>
      /\ journal.from \in retired \cup {operating}
      /\ journal.to \in {operating, successor}
      /\ journal.next \in {successor, staged}

\* The key at the end of the signed chain and the successor it has committed to
\* are always among the files: the address is never lost to a crash.
ChainHeadHeld ==
    \A r \in signed :
      (\A s \in signed : s.from # r.to) =>
        /\ r.to \in {operating, successor}
        /\ r.next \in {successor, staged}

\* The outgoing key of a signed transition stays on the disk until its grace
\* interval is over, so mail to the old address can still be drained
\* (retired_identities_and_live_count_locked).
GraceKeyKept ==
    \A r \in signed : now < r.at + Grace => r.from \in retired \cup {operating}

\* Wherever a rotation stopped and whoever goes on with it, no key that is still
\* needed has left the disk: not the ones the journal asks for, not the end of
\* the signed chain, not an address in its grace interval.
NoKeyLost == JournalIsCompletable /\ ChainHeadHeld /\ GraceKeyKept

\* Two things only can make every later open of the home fail: a temporary file
\* left in retired/, and a pair of which only the key was removed.  Otherwise
\* the directory is in order and the bound on retired identities is respected
\* (complete_rotation_locked, retired_identities_and_live_count_locked).
TornOnlyByRemoval ==
    lease = Free =>
      \/ remnant
      \/ Noted \ retired # {}
      \/ Unpaired \subseteq Tolerated /\ ~ TooManyEntries /\ LiveCount <= MaxLive

\* A process that opens the home after a crash is not refused: the directory
\* of retired keys holds exact pairs only (docs/keys.md: "a process crash ...
\* leaves that same plan resumable").
Reopens ==
    lease = Free => ~ remnant /\ Unpaired \subseteq Tolerated

=============================================================================
