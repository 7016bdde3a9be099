----------------------------- MODULE AuditFile -----------------------------
(***************************************************************************)
(* The file-backed audit sink, rotatingFileAuditSink                       *)
(* (packages/runtime/src/audit-file.ts), under emitExecutionRecord         *)
(* (packages/emitter-support/src/audit.ts), which catches what it throws   *)
(* and announces that record as lost.                                      *)
(*                                                                         *)
(* Slot 0 is the live file, slot i the generation path.i.  Every call into *)
(* the file system is an action: it may succeed, it may throw, and the     *)
(* process may die before or during it and start again.  A write that      *)
(* fails or is cut short leaves a prefix of the record in the file.        *)
(***************************************************************************)
EXTENDS Naturals, Sequences, FiniteSets

CONSTANTS MaxFiles,   \* generations to keep
          MaxBytes,   \* rotate once the live file would exceed this
          Sizes,      \* sizes a serialized record may have, newline included
          MaxRecords  \* bound: records a behaviour emits

ASSUME AuditFileAssumption ==
  /\ MaxFiles \in Nat \ {0} /\ MaxBytes \in Nat \ {0} /\ MaxRecords \in Nat
  /\ Sizes \subseteq Nat \ {0, 1}

VARIABLES
  there,     \* the slots whose file exists
  log,       \* [Slots -> the lines of the file]
  bytes,     \* [Slots -> the size of the file, as statSync gives it]
  liveBytes, \* the size of the live file as the sink believes it
  pc,        \* "idle", "unlink", "shift", "append", "down"
  slot,      \* the file the rotation is about to move along
  current,   \* the record being written
  emitted,   \* how many records were handed to the sink
  outcome,   \* what became of each record
  dropped    \* records in generations the rotation has deleted

afVars == <<there, log, bytes, liveBytes, pc, slot, current, emitted, outcome, dropped>>

Slots == 0 .. MaxFiles
Records == 1 .. MaxRecords

(* A line holds the records whose bytes are in it.  It is readable if it   *)
(* holds all of one record and nothing else; ended, if its newline is      *)
(* there.                                                                  *)
Line == [of : SUBSET Records, readable : BOOLEAN, ended : BOOLEAN]

RecordsIn(lines) == UNION {lines[i].of : i \in DOMAIN lines}

OnDisk == UNION {RecordsIn(log[s]) : s \in there}

(* The file after p bytes of the record r were written at its end: behind  *)
(* a line that was cut short they become part of that line, and neither    *)
(* record can be read any more.                                            *)
Written(lines, r, p) ==
  LET end == Len(lines)
      ended == p = r.size
  IN IF p = 0 THEN lines
     ELSE IF end > 0 /\ ~lines[end].ended
     THEN [lines EXCEPT ![end] = [of |-> @.of \cup {r.id}, readable |-> FALSE, ended |-> ended]]
     ELSE Append(lines, [of |-> {r.id}, readable |-> p >= r.size - 1, ended |-> ended])

AFInit == /\ there = {}
          /\ log = [s \in Slots |-> <<>>]
          /\ bytes = [s \in Slots |-> 0]
          /\ liveBytes = 0
          /\ pc = "idle"
          /\ slot = 0
          /\ current = [id |-> 0, size |-> 0]
          /\ emitted = 0
          /\ outcome = [r \in Records |-> "none"]
          /\ dropped = {}

(* emitExecutionRecord has caught an exception of the sink. *)
Announce == /\ pc' = "idle"
            /\ outcome' = [outcome EXCEPT ![current.id] = "announced"]

(* Mutation: the record's own size is not counted. *)
EmitLate ==
  /\ pc = "idle"
  /\ emitted < MaxRecords
  /\ emitted' = emitted + 1
  /\ \E size \in Sizes :
       /\ current' = [id |-> emitted + 1, size |-> size]
       /\ pc' = IF liveBytes > MaxBytes THEN "unlink" ELSE "append"
  /\ UNCHANGED <<there, log, bytes, liveBytes, slot, outcome, dropped>>

(* The sink is called with the next record: rotate first, or append. *)
Emit ==
  /\ pc = "idle"
  /\ emitted < MaxRecords
  /\ emitted' = emitted + 1
  /\ \E size \in Sizes :
       /\ current' = [id |-> emitted + 1, size |-> size]
       /\ pc' = IF liveBytes > 0 /\ liveBytes + size > MaxBytes THEN "unlink" ELSE "append"
  /\ UNCHANGED <<there, log, bytes, liveBytes, slot, outcome, dropped>>

(* Mutation: the loop starts one generation too far out. *)
UnlinkThenTooFar ==
  /\ pc = "unlink"
  /\ there' = there \ {MaxFiles}
  /\ log' = [log EXCEPT ![MaxFiles] = <<>>]
  /\ bytes' = [bytes EXCEPT ![MaxFiles] = 0]
  /\ dropped' = dropped \cup RecordsIn(log[MaxFiles])
  /\ pc' = "shift"
  /\ slot' = MaxFiles
  /\ UNCHANGED <<liveBytes, current, emitted, outcome>>

(* rotate, first statement: the oldest generation is deleted. *)
Unlink ==
  /\ pc = "unlink"
  /\ \/ /\ there' = there \ {MaxFiles}
        /\ log' = [log EXCEPT ![MaxFiles] = <<>>]
        /\ bytes' = [bytes EXCEPT ![MaxFiles] = 0]
        /\ dropped' = dropped \cup RecordsIn(log[MaxFiles])
        /\ pc' = "shift"
        /\ slot' = MaxFiles - 1
        /\ UNCHANGED outcome
     \/ /\ MaxFiles \in there
        /\ Announce
        /\ UNCHANGED <<there, log, bytes, slot, dropped>>
  /\ UNCHANGED <<liveBytes, current, emitted>>

(* rename(from, from + 1): what was at the destination is gone. *)
Rename(from) ==
  IF from \notin there THEN UNCHANGED <<there, log, bytes>>
  ELSE /\ there' = (there \ {from}) \cup {from + 1}
       /\ log' = [log EXCEPT ![from + 1] = log[from], ![from] = <<>>]
       /\ bytes' = [bytes EXCEPT ![from + 1] = bytes[from], ![from] = 0]

(* Mutation: youngest first. *)
ShiftUpwards ==
  LET from == MaxFiles - 1 - slot IN
  /\ pc = "shift"
  /\ Rename(from)
  /\ IF slot = 0 THEN pc' = "append" /\ liveBytes' = 0 /\ UNCHANGED slot
     ELSE slot' = slot - 1 /\ UNCHANGED <<pc, liveBytes>>
  /\ UNCHANGED <<current, emitted, outcome, dropped>>

(* Mutation: generations are numbered upwards, the live file takes the     *)
(* lowest place that is free.                                              *)
ShiftToFree ==
  LET free == CHOOSE s \in Slots \ there : \A t \in Slots \ there : s <= t IN
  /\ pc = "shift"
  /\ 0 \in there
  /\ there' = (there \ {0}) \cup {free}
  /\ log' = [log EXCEPT ![free] = log[0], ![0] = <<>>]
  /\ bytes' = [bytes EXCEPT ![free] = bytes[0], ![0] = 0]
  /\ pc' = "append"
  /\ liveBytes' = 0
  /\ UNCHANGED <<slot, current, emitted, outcome, dropped>>

(* rotate, the loop and the live file after it: oldest first, each moved   *)
(* along if it exists.                                                     *)
Shift ==
  /\ pc = "shift"
  /\ \/ /\ Rename(slot)
        /\ IF slot = 0 THEN pc' = "append" /\ liveBytes' = 0 /\ UNCHANGED slot
           ELSE slot' = slot - 1 /\ UNCHANGED <<pc, liveBytes>>
        /\ UNCHANGED outcome
     \/ /\ slot \in there
        /\ Announce
        /\ UNCHANGED <<there, log, bytes, slot, liveBytes>>
  /\ UNCHANGED <<current, emitted, dropped>>

Put(p) == /\ there' = there \cup {0}
          /\ log' = [log EXCEPT ![0] = Written(@, current, p)]
          /\ bytes' = [bytes EXCEPT ![0] = @ + p]

(* Mutation: a write that fails is not reported to the caller. *)
SwallowFailure ==
  /\ pc = "append"
  /\ \E p \in 0 .. current.size : Put(p)
  /\ pc' = "idle"
  /\ outcome' = [outcome EXCEPT ![current.id] = "kept"]
  /\ liveBytes' = liveBytes + current.size
  /\ UNCHANGED <<slot, current, emitted, dropped>>

(* appendFileSync writes all of the record, or throws after some of it.    *)
AppendLine ==
  /\ pc = "append"
  /\ \/ /\ Put(current.size)
        /\ pc' = "idle"
        /\ outcome' = [outcome EXCEPT ![current.id] = "kept"]
        /\ liveBytes' = liveBytes + current.size
     \/ /\ (\E p \in 0 .. current.size - 1 : Put(p)) \/ UNCHANGED <<there, log, bytes>>
        /\ Announce
        /\ UNCHANGED liveBytes
  /\ UNCHANGED <<slot, current, emitted, dropped>>

(* The process dies, between two calls or inside the write. *)
Crash ==
  /\ pc # "down"
  /\ pc' = "down"
  /\ outcome' = IF pc = "idle" THEN outcome ELSE [outcome EXCEPT ![current.id] = "interrupted"]
  /\ \/ UNCHANGED <<there, log, bytes>>
     \/ pc = "append" /\ \E p \in 0 .. current.size : Put(p)
  /\ UNCHANGED <<liveBytes, slot, current, emitted, dropped>>

(* Mutation: a new process takes the live file for empty. *)
RestartUnaware ==
  /\ pc = "down"
  /\ pc' = "idle"
  /\ liveBytes' = 0
  /\ UNCHANGED <<there, log, bytes, slot, current, emitted, outcome, dropped>>

(* A new process constructs the sink: the size comes from statSync. *)
Restart ==
  /\ pc = "down"
  /\ pc' = "idle"
  /\ liveBytes' = IF 0 \in there THEN bytes[0] ELSE 0
  /\ UNCHANGED <<there, log, bytes, slot, current, emitted, outcome, dropped>>

AFNext == Emit \/ Unlink \/ Shift \/ AppendLine \/ Crash \/ Restart

AFSpec == AFInit /\ [][AFNext]_afVars
-----------------------------------------------------------------------------
(* Properties.                                                             *)

AFTypeOK ==
  /\ there \subseteq Slots
  /\ log \in [Slots -> Seq(Line)]
  /\ bytes \in [Slots -> Nat]
  /\ \A s \in Slots \ there : log[s] = <<>> /\ bytes[s] = 0
  /\ liveBytes \in Nat
  /\ pc \in {"idle", "unlink", "shift", "append", "down"}
  /\ slot \in 0 .. MaxFiles - 1
  /\ current \in [id : 0 .. MaxRecords, size : Nat]
  /\ emitted \in 0 .. MaxRecords
  /\ outcome \in [Records -> {"none", "kept", "announced", "interrupted"}]
  /\ dropped \subseteq Records

Readable(r) == \E s \in there : \E i \in DOMAIN log[s] : log[s][i].readable /\ log[s][i].of = {r}

(* Read from the oldest generation to the live file, the records come in   *)
(* the order in which they were emitted, after any failure and any crash,  *)
(* also one in the middle of a rotation.                                   *)
GenerationsInOrder ==
  \A s, t \in there : \A i \in DOMAIN log[s], j \in DOMAIN log[t] :
    s > t \/ (s = t /\ i < j) => \A a \in log[s][i].of, b \in log[t][j].of : a < b

(* A record leaves the disk only with the oldest generation, by the        *)
(* deletion that starts a rotation: no rename ever lands on a file that is *)
(* still there (audit-file.ts:76, "nothing is overwritten before it has    *)
(* been moved along").                                                     *)
NothingOverwritten ==
  [][\A r \in OnDisk \ OnDisk' : pc = "unlink" /\ r \in RecordsIn(log[MaxFiles])]_afVars

(* A record whose sink call returned can be read back until its generation *)
(* is deleted, except when it was written behind a line that an earlier    *)
(* failure or crash had cut short.                                         *)
KeptIsReadable ==
  \A r \in Records : outcome[r] = "kept" =>
    \/ r \in dropped
    \/ Readable(r)
    \/ \E s \in there : \E i \in DOMAIN log[s] :
         r \in log[s][i].of /\ \E q \in log[s][i].of : outcome[q] \in {"announced", "interrupted"}

(* No file outgrows the budget unless one record alone does, or a write    *)
(* into it was cut short: over restarts too.                               *)
FileBudget ==
  \A s \in there :
    \/ bytes[s] <= MaxBytes
    \/ Len(log[s]) = 1
    \/ \E i \in DOMAIN log[s] : \E q \in log[s][i].of : outcome[q] = "announced"

(* Stated by audit.ts:401 of a sink failure, "evidence was lost ... so     *)
(* every failure is reported": a record that cannot be read back, and was  *)
(* not deleted with its generation, is one whose call did not return.      *)
EveryLossReported ==
  \A r \in Records : outcome[r] = "kept" => r \in dropped \/ Readable(r)

(* Stated by the option maxFiles (audit-file.ts:23, "How many rotated      *)
(* generations to keep. The oldest is deleted on rotation."): a generation *)
(* is deleted only when all the younger ones are there.                    *)
KeepsGenerations == pc = "unlink" /\ MaxFiles \in there => there = Slots
=============================================================================
