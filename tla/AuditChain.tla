----------------------------- MODULE AuditChain -----------------------------
(***************************************************************************)
(* The hash-chained audit trail (audit.py): AuditLog on a JSONL file and   *)
(* PostgresAuditSink on one stream of a table, with the ways a write can   *)
(* fail, the restart that re-verifies the chain, and edits made to the     *)
(* stored trail from outside.                                              *)
(*                                                                         *)
(* A hash stands for what it commits to: every record content ever hashed  *)
(* gets a number of its own, so equal hashes mean equal records.           *)
(***************************************************************************)
EXTENDS Integers, Sequences, FiniteSets

CONSTANTS
    Writers,      \* harness processes
    Sharing,      \* medium -> the processes that append to one trail on it: "table", keyed
                  \* by sequence, or "file", opened for append
    LateFailure,  \* media whose writes may raise and leave the record behind: all of it
                  \* (fsync fails, the acknowledgement is lost) or, in a file, a part
                  \* (disk full)
    MaxHashes,    \* bound: record contents ever hashed
    MaxFaults,    \* bound: failed writes and crashes
    MaxEdits      \* bound: edits from outside

ASSUME Trails ==
    /\ DOMAIN Sharing \subseteq {"file", "table"}
    /\ \A m \in DOMAIN Sharing : Sharing[m] \subseteq Writers
    /\ MaxHashes \in Nat

VARIABLES
    medium,       \* where the trail is kept, fixed by the audit setting
    log,          \* the stored trail
    unended,      \* the file's last line lacks its newline
    head,         \* writer -> _count, _last_hash and whether the process is up
    hashes,       \* record contents hashed so far
    known,        \* writer -> the trail it verified at its start and what it added since
    acked,        \* hashes of the records whose record() returned
    faults, edits

vars == <<medium, log, unended, head, hashes, known, acked, faults, edits>>

GENESIS == 0

(* A stored line.  "torn" is one that is not valid JSON: a write was cut   *)
(* short, or two records share the line; "stale" one whose hash is not the *)
(* hash of its contents.                                                   *)
Line == [sequence: 0..MaxHashes, prev_hash: 0..MaxHashes, hash: 1..MaxHashes,
         state: {"whole", "torn", "stale"}]

(* Mistake: a line's prev_hash is not compared.                            *)
VerifiesUnlinked(l) == \A i \in 1..Len(l) : l[i].state = "whole" /\ l[i].sequence = i - 1

(* verify_chain over iter_records.                                         *)
Verifies(l) ==
    \A i \in 1..Len(l) :
        /\ l[i].state = "whole"
        /\ l[i].sequence = i - 1
        /\ l[i].prev_hash = IF i = 1 THEN GENESIS ELSE l[i - 1].hash

(* audit_view (inspect/model.py) verifies while it reads: v is what it has *)
(* seen, line the next line.  After the first fault it only counts.        *)
Sound(v, line) ==
    line.state = "whole" /\ line.sequence = v.total /\ line.prev_hash = v.prev

(* Mistake: a line that does not parse is not counted.                     *)
view_line_skipping(v, line) ==
    IF line.state = "torn" THEN [v EXCEPT !.ok = FALSE]
    ELSE [ok   |-> v.ok /\ Sound(v, line),
          bad  |-> IF v.ok /\ ~Sound(v, line) THEN v.total ELSE v.bad,
          prev |-> IF v.ok THEN line.hash ELSE v.prev,
          total |-> v.total + 1]

view_line(v, line) ==
    [ok   |-> v.ok /\ Sound(v, line),
     bad  |-> IF v.ok /\ ~Sound(v, line) THEN v.total ELSE v.bad,
     prev |-> IF v.ok /\ line.state # "torn" THEN line.hash ELSE v.prev,
     total |-> v.total + 1]

(* bad_sequence is -1 here where the code has None.                        *)
audit_view(l) ==
    LET seen[n \in 0..Len(l)] ==
            IF n = 0 THEN [ok |-> TRUE, bad |-> -1, prev |-> GENESIS, total |-> 0]
                     ELSE view_line(seen[n - 1], l[n])
    IN  seen[Len(l)]

last_hash(l) == IF l = <<>> THEN GENESIS ELSE l[Len(l)].hash

Init ==
    /\ medium \in DOMAIN Sharing
    /\ log = <<>> /\ unended = FALSE
    /\ head = [w \in Writers |-> [count |-> 0, last |-> GENESIS, up |-> w \in Sharing[medium]]]
    /\ hashes = 0
    /\ known = [w \in Writers |-> <<>>]
    /\ acked = {}
    /\ faults = 0 /\ edits = 0

Fault == faults < MaxFaults /\ faults' = faults + 1

(* Mistake: every record starts a chain of its own.                        *)
body_unlinked(w) == [sequence |-> head[w].count, prev_hash |-> GENESIS,
                     hash |-> hashes + 1, state |-> "whole"]

(* The record a writer builds from its own idea of the chain's head.       *)
body(w) == [sequence |-> head[w].count, prev_hash |-> head[w].last,
            hash |-> hashes + 1, state |-> "whole"]

(* Mistake: the newline is forgotten.                                      *)
StoresUnended(line, newline) ==
    /\ log' = IF unended THEN [log EXCEPT ![Len(log)].state = "torn"] ELSE Append(log, line)
    /\ unended' = (medium = "file")

(* Storing a line, with its newline or without: what follows a line that   *)
(* lacks its newline becomes part of it, and the two are not JSON.         *)
Stores(line, newline) ==
    /\ log' = IF unended THEN [log EXCEPT ![Len(log)].state = "torn"] ELSE Append(log, line)
    /\ unended' = ~newline

(* A write to a file that is cut short: in the middle of the line, or just *)
(* before the newline, which leaves a line that reads as well as any.      *)
CutShort(line) ==
    /\ medium = "file"
    /\ \E state \in {"whole", "torn"} : Stores([line EXCEPT !.state = state], FALSE)

(* A table refuses a sequence number it already has.                       *)
Conflict(w) == medium = "table" /\ \E i \in 1..Len(log) : log[i].sequence = head[w].count

Hashes == hashes < MaxHashes /\ hashes' = hashes + 1

(* record(), to its end: the head moves only after the line is stored.     *)
Record(w) ==
    /\ head[w].up /\ ~Conflict(w)
    /\ Hashes
    /\ Stores(body(w), TRUE)
    /\ head' = [head EXCEPT ![w].count = @ + 1, ![w].last = hashes + 1]
    /\ acked' = acked \cup {hashes + 1}
    /\ known' = [known EXCEPT ![w] = Append(@, body(w))]
    /\ UNCHANGED <<faults, edits>>

(* record() raises after the line, or the beginning of it, was stored.     *)
RecordRaises(w) ==
    /\ medium \in LateFailure
    /\ head[w].up /\ ~Conflict(w)
    /\ Hashes /\ Fault
    /\ Stores(body(w), TRUE) \/ CutShort(body(w))
    /\ UNCHANGED <<head, known, acked, edits>>

(* The process dies: outside record() or before it stored anything, after  *)
(* it stored the line, or with the line cut short.  (A write that raises   *)
(* and stores nothing changes nothing: a stuttering step.)                 *)
Crash(w) ==
    /\ head[w].up
    /\ Fault
    /\ \/ UNCHANGED <<log, unended, hashes>>
       \/ ~Conflict(w) /\ Hashes /\ (Stores(body(w), TRUE) \/ CutShort(body(w)))
    /\ head' = [head EXCEPT ![w].up = FALSE]
    /\ UNCHANGED <<known, acked, edits>>

(* Mistake: a start that cuts off what does not verify.                    *)
Resume(w, count, last) ==
    /\ ~head[w].up
    /\ head' = [head EXCEPT ![w] = [count |-> count, last |-> last, up |-> TRUE]]
    /\ known' = [known EXCEPT ![w] = log']
    /\ UNCHANGED <<hashes, acked, faults, edits>>

RestartRepairing(w) ==
    \E n \in 0..Len(log) :
        /\ log' = SubSeq(log, 1, n) /\ unended' = FALSE
        /\ Verifies(log') /\ Resume(w, n, last_hash(log'))

(* AuditLog.__init__ and PostgresAuditSink.__init__: take up the chain     *)
(* where the stored trail ends, or refuse to start if it does not verify.  *)
Restart(w) ==
    /\ ~head[w].up
    /\ Verifies(log)
    /\ head' = [head EXCEPT ![w] = [count |-> Len(log), last |-> last_hash(log), up |-> TRUE]]
    /\ known' = [known EXCEPT ![w] = log]
    /\ UNCHANGED <<log, unended, hashes, acked, faults, edits>>

(* Somebody edits the stored trail: drops a line, swaps two neighbours,    *)
(* changes a line, or changes it and gives it the hash and the prev_hash   *)
(* that make it fit; the last line may end up with a newline or without.   *)
(* (Only the file's: a table is read in the order of its sequence          *)
(* numbers.)                                                               *)
Without(l, k) == SubSeq(l, 1, k - 1) \o SubSeq(l, k + 1, Len(l))

Edit ==
    /\ medium = "file"
    /\ edits < MaxEdits /\ edits' = edits + 1
    /\ \E k \in 1..Len(log) :
         \/ log' = Without(log, k) /\ UNCHANGED hashes
         \/ k > 1 /\ log' = [log EXCEPT ![k - 1] = log[k], ![k] = log[k - 1]] /\ UNCHANGED hashes
         \/ log' = [log EXCEPT ![k].state = "stale"] /\ UNCHANGED hashes
         \/ /\ Hashes
            /\ log' = [log EXCEPT ![k].hash = hashes + 1,
                          ![k].prev_hash = last_hash(SubSeq(log, 1, k - 1))]
    /\ unended' \in {u \in BOOLEAN : u => log' # <<>>}
    /\ UNCHANGED <<head, known, acked, faults>>

Next ==
    /\ UNCHANGED medium
    /\ \/ \E w \in Sharing[medium] : Record(w) \/ RecordRaises(w) \/ Crash(w) \/ Restart(w)
       \/ Edit

Spec == Init /\ [][Next]_vars

----------------------------------------------------------------------------
(* Every stored line, head and counter has its shape.                      *)
TypeOK ==
    /\ log \in Seq(Line) /\ unended \in BOOLEAN /\ known \in [Writers -> Seq(Line)]
    /\ head \in [Writers -> [count: 0..MaxHashes, last: 0..MaxHashes, up: BOOLEAN]]
    /\ hashes \in 0..MaxHashes
    /\ acked \subseteq 1..MaxHashes

Torn == \E i \in 1..Len(log) : log[i].state = "torn"

(* A trail that nobody touched verifies, whichever processes died and came *)
(* back, whatever acknowledgement a table lost and whoever shared it,      *)
(* unless a line is unreadable because a crash cut it short or left it     *)
(* without its newline.  Of a file only where one process appends to it    *)
(* and no write raises late: the constants exclude the rest                *)
(* (AuditLog.record, PostgresAuditSink.record, __init__).                  *)
VerifiesUnlessTouched == edits = 0 /\ ~Torn => Verifies(log)

(* A trail that verifies and ends where a running process believes it ends *)
(* is, line by line, the trail that process verified when it started and   *)
(* what it has recorded since: nothing in it was dropped, reordered or     *)
(* edited (verify_chain against _count and _last_hash).                    *)
ChainVouchesForPrefix ==
    \A w \in Writers :
        /\ head[w].up
        /\ Verifies(log)
        /\ Len(log) = head[w].count /\ last_hash(log) = head[w].last
        => log = known[w]

Stored(x) == \E i \in 1..Len(log) : log[i].hash = x /\ log[i].state = "whole"
Lost == {x \in acked : ~Stored(x)}

(* Until somebody edits the trail, it loses at most one acknowledged       *)
(* record for every write that failed and every process that died, however *)
(* many processes append and restart, and a table loses none: a cut write  *)
(* spoils the next record, which then ends the line                        *)
(* (AuditLog.record, PostgresAuditSink.record, __init__).                  *)
FailuresCostOneRecord ==
    edits = 0 => Cardinality(Lost) <= IF medium = "file" THEN faults ELSE 0

(* Writes fail closed: what record() acknowledged is in the trail and can  *)
(* be read back, until somebody edits it (AuditLog.record).                *)
AcknowledgedIsStored == edits = 0 => Lost = {}

(* The browser's one pass and verify_chain agree on every trail a fault or *)
(* an edit can leave: whether it verifies, and that the line it blames     *)
(* ends the longest beginning that does (audit_view, verify_chain).        *)
BrowserAgrees ==
    LET v == audit_view(log)
    IN  /\ v.total = Len(log)
        /\ v.ok <=> Verifies(log)
        /\ ~v.ok => /\ v.bad \in 0..(Len(log) - 1)
                    /\ Verifies(SubSeq(log, 1, v.bad))
                    /\ ~Verifies(SubSeq(log, 1, v.bad + 1))

(* The harness itself never makes a broken trail verify again: what was    *)
(* detectable stays so while records keep coming (AuditLog.record).        *)
BreaksStayVisible ==
    [][~Verifies(log) /\ edits' = edits => ~Verifies(log')]_vars
============================================================================
