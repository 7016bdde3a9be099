-------------------------- MODULE AuditFileProofs --------------------------
(***************************************************************************)
(* For any number of generations, any sizes and any number of records, and *)
(* over every failure and crash: the rotation overwrites nothing and keeps *)
(* the records in the order in which they were emitted.                    *)
(*                                                                         *)
(* The argument: while a rotation is under way the place into which the    *)
(* next file moves is free (the deletion freed the last one, each rename   *)
(* frees the one before it), and every record on disk is older than the    *)
(* one the sink holds.                                                     *)
(***************************************************************************)
EXTENDS AuditFile, SequenceTheorems, TLAPS

Busy == pc \in {"unlink", "shift", "append"}

(* The place a rename moves into is free. *)
FreePlace == pc = "shift" => slot + 1 \notin there

(* What the sink holds is the youngest record, and none of it is on disk.  *)
Youngest ==
  /\ Busy => current.id = emitted /\ emitted >= 1 /\ current.size >= 1
  /\ \A s \in Slots : \A i \in DOMAIN log[s] : \A a \in log[s][i].of :
       a <= emitted /\ (Busy => a < emitted)

FileInv == AFTypeOK /\ FreePlace /\ Youngest

-----------------------------------------------------------------------------
(* What a write does to the lines of the live file.                        *)
Wrote(lines, r, p, w) ==
  /\ w \in Seq(Line)
  /\ Len(lines) <= Len(w)
  /\ \A j \in DOMAIN lines : lines[j].of \subseteq w[j].of
  /\ p = 0 => w = lines
  /\ p # 0 => Len(w) \in DOMAIN w /\ r.id \in w[Len(w)].of
  /\ lines = <<>> => Len(w) <= 1
  /\ \A j \in DOMAIN w :
       \/ j \in DOMAIN lines /\ w[j] = lines[j]
       \/ /\ j = Len(w) /\ j = Len(lines) /\ ~lines[j].ended
          /\ w[j].of = lines[j].of \cup {r.id} /\ ~w[j].readable
       \/ /\ j = Len(w) /\ j = Len(lines) + 1
          /\ w[j].of = {r.id} /\ (w[j].readable /\ w[j].ended <=> p = r.size)

LEMMA WrittenLines ==
  ASSUME NEW lines \in Seq(Line), NEW r \in [id : Records, size : Nat], NEW p \in 0 .. r.size
  PROVE  Wrote(lines, r, p, Written(lines, r, p))
<1> USE DEF Wrote
<1> DEFINE w == Written(lines, r, p)
           ended == p = r.size
           end == Len(lines)
           joined == [of |-> lines[end].of \cup {r.id}, readable |-> FALSE, ended |-> ended]
           fresh == [of |-> {r.id}, readable |-> p >= r.size - 1, ended |-> ended]
<1>1. CASE p = 0
  BY <1>1 DEF Written
<1>2. CASE p # 0 /\ end > 0 /\ ~lines[end].ended
  <2>1. w = [lines EXCEPT ![end] = joined]
    BY <1>2 DEF Written
  <2>2. joined \in Line
    <3>1. lines[end] \in Line
      BY <1>2
    <3> QED BY <3>1 DEF Line
  <2>3. joined.of = lines[end].of \cup {r.id} /\ ~joined.readable
    OBVIOUS
  <2>4. end \in 1 .. Len(lines)
    BY <1>2
  <2> HIDE DEF w, joined
  <2>5. w \in Seq(Line) /\ Len(w) = end
    BY <2>1, <2>2, <2>4, ExceptSeq
  <2>6. \A j \in DOMAIN w : w[j] = IF j = end THEN joined ELSE lines[j]
    BY <2>1, <2>2, <2>5
  <2>7. lines # <<>>
    BY <2>4
  <2> QED BY <2>3, <2>4, <2>5, <2>6, <2>7, <1>2 DEF w
<1>3. CASE p # 0 /\ ~(end > 0 /\ ~lines[end].ended)
  <2>1. w = Append(lines, fresh)
    BY <1>3 DEF Written
  <2>2. fresh \in Line
    BY DEF Line
  <2>3. fresh.of = {r.id} /\ (fresh.readable /\ fresh.ended <=> p = r.size)
    <3>1. p \in Nat /\ r.size \in Nat
      OBVIOUS
    <3>2. p = r.size => p >= r.size - 1
      BY <3>1
    <3> QED BY <3>2
  <2> HIDE DEF w, fresh
  <2>4. w \in Seq(Line) /\ Len(w) = end + 1
    BY <2>1, <2>2
  <2>5. \A j \in DOMAIN w : w[j] = IF j = end + 1 THEN fresh ELSE lines[j]
    BY <2>1, <2>2
  <2> QED BY <2>3, <2>4, <2>5, <1>3 DEF w
<1> QED BY <1>1, <1>2, <1>3

LEMMA RecordsAreNumbers ==
  ASSUME NEW files \in [Slots -> Seq(Line)]
  PROVE  \A s \in Slots : \A i \in DOMAIN files[s] : \A a \in files[s][i].of : a \in Nat
<1> SUFFICES ASSUME NEW s \in Slots, NEW i \in DOMAIN files[s], NEW a \in files[s][i].of
             PROVE  a \in Nat
  OBVIOUS
<1>1. files[s][i] \in Line
  OBVIOUS
<1> QED BY <1>1 DEF Line, Records

LEMMA RecordsOnDisk ==
  /\ \A r : r \in OnDisk <=> \E s \in there : \E i \in DOMAIN log[s] : r \in log[s][i].of
  /\ \A r : r \in OnDisk' <=> \E s \in there' : \E i \in DOMAIN log'[s] : r \in log'[s][i].of
BY DEF OnDisk, RecordsIn

(* What an append, whole or in part, does to the files. *)
LEMMA PutKeeps ==
  ASSUME FileInv, GenerationsInOrder, pc = "append", NEW p \in 0 .. current.size, Put(p)
  PROVE  /\ there' \subseteq Slots
         /\ log' \in [Slots -> Seq(Line)]
         /\ bytes' \in [Slots -> Nat]
         /\ \A s \in Slots \ there' : log'[s] = <<>> /\ bytes'[s] = 0
         /\ \A s \in Slots : \A i \in DOMAIN log'[s] : \A a \in log'[s][i].of : a <= emitted
         /\ OnDisk \subseteq OnDisk'
         /\ GenerationsInOrder'
<1> DEFINE w == Written(log[0], current, p)
<1>1. 0 \in Slots /\ log[0] \in Seq(Line) /\ current \in [id : Records, size : Nat]
      /\ current.id = emitted /\ emitted \in Nat /\ Busy
  BY AuditFileAssumption DEF FileInv, AFTypeOK, Youngest, Busy, Slots, Records
<1>2. /\ there' = there \cup {0}
      /\ log' = [log EXCEPT ![0] = w]
      /\ bytes' = [bytes EXCEPT ![0] = @ + p]
  BY DEF Put
<1>3. \A j \in DOMAIN w :
        \/ j \in DOMAIN log[0] /\ w[j] = log[0][j]
        \/ /\ j = Len(w) /\ j = Len(log[0]) /\ ~log[0][j].ended
           /\ w[j].of = log[0][j].of \cup {current.id} /\ ~w[j].readable
        \/ /\ j = Len(w) /\ j = Len(log[0]) + 1
           /\ w[j].of = {current.id} /\ (w[j].readable /\ w[j].ended <=> p = current.size)
  <2>1. Wrote(log[0], current, p, w)
    BY <1>1, WrittenLines
  <2> HIDE DEF w
  <2> QED BY <2>1 DEF Wrote
<1>4. /\ w \in Seq(Line)
      /\ Len(log[0]) <= Len(w)
      /\ \A j \in DOMAIN log[0] : log[0][j].of \subseteq w[j].of
      /\ \A j \in DOMAIN w :
           \/ j \in DOMAIN log[0] /\ w[j].of = log[0][j].of
           \/ /\ j = Len(w)
              /\ \A a \in w[j].of : a = current.id \/ (j \in DOMAIN log[0] /\ a \in log[0][j].of)
  <2>1. /\ w \in Seq(Line)
        /\ Len(log[0]) <= Len(w)
        /\ \A j \in DOMAIN log[0] : log[0][j].of \subseteq w[j].of
    <3>1. Wrote(log[0], current, p, w)
      BY <1>1, WrittenLines
    <3> HIDE DEF w
    <3> QED BY <3>1 DEF Wrote
  <2> QED BY <1>1, <1>3, <2>1
<1> HIDE DEF w
<1>5. /\ there' \subseteq Slots
      /\ log' \in [Slots -> Seq(Line)]
      /\ bytes' \in [Slots -> Nat]
      /\ \A s \in Slots \ there' : log'[s] = <<>> /\ bytes'[s] = 0
  BY <1>1, <1>2, <1>4 DEF FileInv, AFTypeOK
<1>6. log'[0] = w /\ \A s \in Slots \ {0} : log'[s] = log[s]
  BY <1>1, <1>2 DEF FileInv, AFTypeOK
<1>7. \A s \in Slots : \A i \in DOMAIN log[s] : \A a \in log[s][i].of : a < emitted
  BY <1>1 DEF FileInv, Youngest
<1>8. \A s \in Slots : \A i \in DOMAIN log'[s] : \A a \in log'[s][i].of : a <= emitted
  BY <1>1, <1>4, <1>6, <1>7 DEF FileInv, Youngest
<1>9. OnDisk \subseteq OnDisk'
  <2> SUFFICES ASSUME NEW r \in OnDisk PROVE r \in OnDisk'
    OBVIOUS
  <2>1. PICK s \in there : \E i \in DOMAIN log[s] : r \in log[s][i].of
    BY RecordsOnDisk
  <2>2. PICK i \in DOMAIN log[s] : r \in log[s][i].of
    BY <2>1
  <2>3. i \in DOMAIN log'[s] /\ r \in log'[s][i].of
    <3>1. CASE s = 0
      BY <3>1, <2>2, <1>1, <1>4, <1>6
    <3>2. CASE s # 0
      BY <3>2, <2>2, <1>6 DEF FileInv, AFTypeOK
    <3> QED BY <3>1, <3>2
  <2> QED BY <2>3, <1>2, RecordsOnDisk
<1>10. GenerationsInOrder'
  <2> SUFFICES ASSUME NEW s \in there', NEW t \in there', NEW i \in DOMAIN log'[s],
                      NEW j \in DOMAIN log'[t], s > t \/ (s = t /\ i < j),
                      NEW a \in log'[s][i].of, NEW b \in log'[t][j].of
               PROVE  a < b
    BY DEF GenerationsInOrder
  <2>1. s \in Slots /\ t \in Slots /\ s \in Nat /\ t \in Nat
    BY <1>5 DEF Slots
  <2>2. s \in there /\ i \in DOMAIN log[s] /\ a \in log[s][i].of
    <3>1. CASE s # 0
      BY <3>1, <2>1, <1>2, <1>6
    <3>2. CASE s = 0
      <4>1. t = 0 /\ i < j
        BY <3>2, <2>1
      <4>2. i \in Nat /\ j \in 1 .. Len(w) /\ i # Len(w)
        BY <4>1, <3>2, <1>4, <1>6
      <4>3. i \in DOMAIN log[0] /\ w[i].of = log[0][i].of
        BY <4>2, <3>2, <1>4, <1>6
      <4>4. 0 \in there
        BY <4>3, <1>1 DEF FileInv, AFTypeOK
      <4> QED BY <4>3, <4>4, <3>2, <1>6
    <3> QED BY <3>1, <3>2
  <2>3. \/ t \in there /\ j \in DOMAIN log[t] /\ b \in log[t][j].of
        \/ b = emitted
    <3>1. CASE t # 0
      BY <3>1, <2>1, <1>2, <1>6
    <3>2. CASE t = 0
      <4>1. b = emitted \/ (j \in DOMAIN log[0] /\ b \in log[0][j].of)
        BY <3>2, <1>1, <1>4, <1>6
      <4>2. j \in DOMAIN log[0] => 0 \in there
        BY <1>1 DEF FileInv, AFTypeOK
      <4> QED BY <4>1, <4>2, <3>2
    <3> QED BY <3>1, <3>2
  <2>4. a < emitted
    BY <2>1, <2>2, <1>7
  <2> QED BY <2>2, <2>3, <2>4 DEF GenerationsInOrder
<1> QED BY <1>5, <1>8, <1>9, <1>10

(* What a rename of a rotation does to the files. *)
LEMMA RenameKeeps ==
  ASSUME FileInv, GenerationsInOrder, pc = "shift", Rename(slot)
  PROVE  /\ there' \subseteq Slots
         /\ slot \notin there'
         /\ log' \in [Slots -> Seq(Line)]
         /\ bytes' \in [Slots -> Nat]
         /\ \A s \in Slots \ there' : log'[s] = <<>> /\ bytes'[s] = 0
         /\ \A s \in Slots : \A i \in DOMAIN log'[s] : \A a \in log'[s][i].of : a < emitted
         /\ log'[slot] = <<>> /\ bytes'[slot] = 0
         /\ \A t \in Slots \ {slot} : \E s \in Slots :
              log'[t] = log[s] /\ bytes'[t] = bytes[s] /\ (t # slot + 1 => s = t)
         /\ OnDisk \subseteq OnDisk'
         /\ GenerationsInOrder'
<1>1. slot \in Slots /\ slot + 1 \in Slots /\ slot \in Nat /\ slot + 1 # slot
      /\ slot + 1 \notin there /\ Busy
  BY AuditFileAssumption DEF FileInv, AFTypeOK, FreePlace, Slots, Busy
<1>2. \A s \in Slots : \A i \in DOMAIN log[s] : \A a \in log[s][i].of : a < emitted
  BY <1>1 DEF FileInv, Youngest
<1>3. CASE slot \notin there
  <2>1. there' = there /\ log' = log /\ bytes' = bytes
    BY <1>3 DEF Rename
  <2>2. /\ log'[slot] = <<>> /\ bytes'[slot] = 0
        /\ \A t \in Slots : log'[t] = log[t] /\ bytes'[t] = bytes[t]
    BY <2>1, <1>1, <1>3 DEF FileInv, AFTypeOK
  <2>3. OnDisk \subseteq OnDisk' /\ GenerationsInOrder'
    BY <2>1, RecordsOnDisk DEF GenerationsInOrder
  <2>4. /\ there' \subseteq Slots /\ slot \notin there'
        /\ log' \in [Slots -> Seq(Line)]
        /\ bytes' \in [Slots -> Nat]
        /\ \A s \in Slots \ there' : log'[s] = <<>> /\ bytes'[s] = 0
    BY <2>1, <1>3 DEF FileInv, AFTypeOK
  <2> QED BY <2>1, <2>2, <2>3, <2>4, <1>2
<1>4. CASE slot \in there
  <2> DEFINE from(t) == IF t = slot + 1 THEN slot ELSE t
  <2>1. /\ there' = (there \ {slot}) \cup {slot + 1}
        /\ log' = [log EXCEPT ![slot + 1] = log[slot], ![slot] = <<>>]
        /\ bytes' = [bytes EXCEPT ![slot + 1] = bytes[slot], ![slot] = 0]
    BY <1>4 DEF Rename
  <2>2. /\ there' \subseteq Slots /\ slot \notin there'
        /\ log' \in [Slots -> Seq(Line)]
        /\ bytes' \in [Slots -> Nat]
        /\ \A s \in Slots \ there' : log'[s] = <<>> /\ bytes'[s] = 0
    BY <2>1, <1>1 DEF FileInv, AFTypeOK
  <2>3. \A t \in there' : from(t) \in there /\ log'[t] = log[from(t)]
    BY <2>1, <1>1, <1>4 DEF FileInv, AFTypeOK
  <2>4. /\ log'[slot] = <<>> /\ bytes'[slot] = 0
        /\ \A t \in Slots \ {slot} : log'[t] = log[from(t)] /\ bytes'[t] = bytes[from(t)]
    BY <2>1, <1>1 DEF FileInv, AFTypeOK
  <2>5. \A s \in Slots : \A i \in DOMAIN log'[s] : \A a \in log'[s][i].of : a < emitted
    <3> SUFFICES ASSUME NEW s \in Slots, NEW i \in DOMAIN log'[s], NEW a \in log'[s][i].of
                 PROVE  a < emitted
      OBVIOUS
    <3>1. s \in there'
      BY <2>2
    <3>2. from(s) \in Slots /\ log'[s] = log[from(s)]
      BY <3>1, <2>3 DEF FileInv, AFTypeOK
    <3> QED BY <3>2, <1>2
  <2>6. OnDisk \subseteq OnDisk'
    <3> SUFFICES ASSUME NEW r \in OnDisk PROVE r \in OnDisk'
      OBVIOUS
    <3>1. PICK s \in there : \E i \in DOMAIN log[s] : r \in log[s][i].of
      BY RecordsOnDisk
    <3>2. PICK t \in there' : log'[t] = log[s]
      <4>1. CASE s = slot
        BY <4>1, <2>1, <2>3
      <4>2. CASE s # slot
        <5>1. s \in there' /\ s # slot + 1
          BY <4>2, <2>1, <1>1
        <5> QED BY <5>1, <2>3
      <4> QED BY <4>1, <4>2
    <3> QED BY <3>1, <3>2, RecordsOnDisk
  <2>7. GenerationsInOrder'
    <3> SUFFICES ASSUME NEW s \in there', NEW t \in there', NEW i \in DOMAIN log'[s],
                        NEW j \in DOMAIN log'[t], s > t \/ (s = t /\ i < j),
                        NEW a \in log'[s][i].of, NEW b \in log'[t][j].of
                 PROVE  a < b
      BY DEF GenerationsInOrder
    <3>1. s \in Nat /\ t \in Nat /\ s # slot /\ t # slot
      BY <2>2 DEF Slots
    <3>2. from(s) > from(t) \/ (from(s) = from(t) /\ i < j)
      BY <3>1, <1>1
    <3>3. /\ from(s) \in there /\ from(t) \in there
          /\ i \in DOMAIN log[from(s)] /\ j \in DOMAIN log[from(t)]
          /\ a \in log[from(s)][i].of /\ b \in log[from(t)][j].of
      BY <2>3
    <3> HIDE DEF from
    <3> QED BY <3>2, <3>3 DEF GenerationsInOrder
  <2>8. \A t \in Slots \ {slot} : \E s \in Slots :
          log'[t] = log[s] /\ bytes'[t] = bytes[s] /\ (t # slot + 1 => s = t)
    BY <2>4, <1>1
  <2> QED BY <2>2, <2>4, <2>5, <2>6, <2>7, <2>8
<1> QED BY <1>3, <1>4

-----------------------------------------------------------------------------
(* The invariant.                                                          *)

LEMMA FileInit == AFInit => FileInv /\ GenerationsInOrder
BY AuditFileAssumption
DEF AFInit, FileInv, AFTypeOK, FreePlace, Youngest, Busy, GenerationsInOrder, Slots, Records

(* One step per action of the sink, of the file system and of the process. *)
LEMMA FileStep ==
  ASSUME FileInv, GenerationsInOrder, [AFNext]_afVars
  PROVE  FileInv' /\ GenerationsInOrder'
<1> USE AuditFileAssumption
<1>1. CASE UNCHANGED afVars
  BY <1>1 DEF afVars, FileInv, AFTypeOK, FreePlace, Youngest, Busy, GenerationsInOrder
<1>2. CASE Emit
  <2>1. PICK size \in Sizes : current' = [id |-> emitted + 1, size |-> size]
    BY <1>2 DEF Emit
  <2>2. UNCHANGED <<there, log, bytes, slot, liveBytes, outcome, dropped>> /\ emitted' = emitted + 1 /\ pc' \in {"unlink", "append"}
        /\ emitted \in 0 .. MaxRecords /\ emitted < MaxRecords
    BY <1>2 DEF Emit, FileInv, AFTypeOK
  <2>3. AFTypeOK'
    BY <2>1, <2>2 DEF FileInv, AFTypeOK
  <2>4. Youngest'
    <3>1. \A s \in Slots : \A i \in DOMAIN log[s] : \A a \in log[s][i].of : a <= emitted /\ a \in Nat
      BY RecordsAreNumbers DEF FileInv, AFTypeOK, Youngest
    <3> QED BY <3>1, <2>1, <2>2 DEF Youngest
  <2> QED BY <2>2, <2>3, <2>4 DEF FileInv, FreePlace, GenerationsInOrder
<1>3. CASE Unlink
  <2>1. CASE Announce /\ UNCHANGED <<there, log, bytes, slot, dropped>>
    <3>1. pc = "unlink" /\ UNCHANGED <<liveBytes, current, emitted>>
      BY <1>3 DEF Unlink
    <3>2. AFTypeOK'
      BY <2>1, <3>1 DEF Announce, FileInv, AFTypeOK
    <3> QED BY <2>1, <3>1, <3>2 DEF Announce, FileInv, FreePlace, Youngest, Busy, GenerationsInOrder
  <2>2. CASE /\ there' = there \ {MaxFiles}
             /\ log' = [log EXCEPT ![MaxFiles] = <<>>]
             /\ bytes' = [bytes EXCEPT ![MaxFiles] = 0]
             /\ dropped' = dropped \cup RecordsIn(log[MaxFiles])
             /\ pc' = "shift"
             /\ slot' = MaxFiles - 1
             /\ UNCHANGED outcome
    <3>1. pc = "unlink" /\ UNCHANGED <<liveBytes, current, emitted>> /\ MaxFiles \in Slots
      BY <1>3 DEF Unlink, Slots
    <3>2. AFTypeOK'
      <4>1. dropped' \subseteq Records
        <5>1. \A i \in DOMAIN log[MaxFiles] : log[MaxFiles][i] \in Line
          BY <3>1 DEF FileInv, AFTypeOK
        <5>2. RecordsIn(log[MaxFiles]) \subseteq Records
          BY <5>1 DEF RecordsIn, Line
        <5> QED BY <2>2, <5>2 DEF FileInv, AFTypeOK
      <4> QED BY <2>2, <3>1, <4>1 DEF FileInv, AFTypeOK
    <3>3. \A s \in Slots : log'[s] = IF s = MaxFiles THEN <<>> ELSE log[s]
      BY <2>2 DEF FileInv, AFTypeOK
    <3>4. Youngest' /\ FreePlace'
      BY <2>2, <3>1, <3>3 DEF FileInv, Youngest, Busy, FreePlace
    <3>5. GenerationsInOrder'
      BY <2>2, <3>3 DEF FileInv, AFTypeOK, GenerationsInOrder
    <3> QED BY <3>2, <3>4, <3>5 DEF FileInv
  <2> QED BY <2>1, <2>2, <1>3 DEF Unlink
<1>4. CASE Shift
  <2>1. pc = "shift" /\ UNCHANGED <<current, emitted, dropped>> /\ slot \in 0 .. MaxFiles - 1
    BY <1>4 DEF Shift, FileInv, AFTypeOK
  <2>2. CASE Announce /\ UNCHANGED <<there, log, bytes, slot, liveBytes>>
    <3>1. AFTypeOK'
      BY <2>1, <2>2 DEF Announce, FileInv, AFTypeOK
    <3> QED BY <2>1, <2>2, <3>1 DEF Announce, FileInv, FreePlace, Youngest, Busy, GenerationsInOrder
  <2>3. CASE /\ Rename(slot)
             /\ IF slot = 0 THEN pc' = "append" /\ liveBytes' = 0 /\ UNCHANGED slot
                ELSE slot' = slot - 1 /\ UNCHANGED <<pc, liveBytes>>
             /\ UNCHANGED outcome
    <3>1. /\ there' \subseteq Slots /\ slot \notin there'
          /\ log' \in [Slots -> Seq(Line)]
          /\ bytes' \in [Slots -> Nat]
          /\ \A s \in Slots \ there' : log'[s] = <<>> /\ bytes'[s] = 0
          /\ \A s \in Slots : \A i \in DOMAIN log'[s] : \A a \in log'[s][i].of : a < emitted
          /\ GenerationsInOrder'
      BY <2>1, <2>3, RenameKeeps
    <3>2. AFTypeOK'
      BY <2>1, <2>3, <3>1 DEF FileInv, AFTypeOK
    <3>3. FreePlace'
      BY <2>1, <2>3, <3>1 DEF FreePlace
    <3>4. Youngest'
      <4>1. \A s \in Slots : \A i \in DOMAIN log'[s] : \A a \in log'[s][i].of : a \in Nat
        BY <3>1, RecordsAreNumbers
      <4>2. emitted \in Nat /\ current.id = emitted /\ emitted >= 1 /\ current.size >= 1
        BY <2>1 DEF FileInv, AFTypeOK, Youngest, Busy
      <4> QED BY <2>1, <3>1, <4>1, <4>2 DEF Youngest
    <3> QED BY <3>1, <3>2, <3>3, <3>4 DEF FileInv
  <2> QED BY <2>2, <2>3, <1>4 DEF Shift
<1>5. CASE AppendLine
  <2>1. pc = "append" /\ pc' = "idle" /\ UNCHANGED <<slot, current, emitted, dropped>>
    BY <1>5 DEF AppendLine, Announce
  <2>2. /\ liveBytes' \in Nat
        /\ outcome' \in [Records -> {"none", "kept", "announced", "interrupted"}]
    BY <1>5 DEF AppendLine, Announce, FileInv, AFTypeOK
  <2>3. CASE UNCHANGED <<there, log, bytes>>
    BY <2>1, <2>2, <2>3 DEF FileInv, AFTypeOK, FreePlace, Youngest, Busy, GenerationsInOrder
  <2>4. CASE \E p \in 0 .. current.size : Put(p)
    BY <2>1, <2>2, <2>4, PutKeeps DEF FileInv, AFTypeOK, FreePlace, Youngest, Busy
  <2>5. current.size \in Nat
    BY DEF FileInv, AFTypeOK
  <2> QED BY <2>3, <2>4, <2>5, <1>5 DEF AppendLine
<1>6. CASE Crash
  <2>1. pc' = "down" /\ UNCHANGED <<liveBytes, slot, current, emitted, dropped>>
    BY <1>6 DEF Crash
  <2>2. outcome' \in [Records -> {"none", "kept", "announced", "interrupted"}]
    BY <1>6 DEF Crash, FileInv, AFTypeOK
  <2>3. CASE UNCHANGED <<there, log, bytes>>
    BY <2>1, <2>2, <2>3 DEF FileInv, AFTypeOK, FreePlace, Youngest, Busy, GenerationsInOrder
  <2>4. CASE pc = "append" /\ \E p \in 0 .. current.size : Put(p)
    BY <2>1, <2>2, <2>4, PutKeeps DEF FileInv, AFTypeOK, FreePlace, Youngest, Busy
  <2> QED BY <2>3, <2>4, <1>6 DEF Crash
<1>7. CASE Restart
  BY <1>7 DEF Restart, FileInv, AFTypeOK, FreePlace, Youngest, Busy, GenerationsInOrder
<1> QED BY <1>1, <1>2, <1>3, <1>4, <1>5, <1>6, <1>7 DEF AFNext

LEMMA FilesCorrect == AFSpec => [](FileInv /\ GenerationsInOrder)
BY FileInit, FileStep, PTL DEF AFSpec

(* Whatever fails and whenever the process dies, the records lie on disk   *)
(* in the order in which they were emitted.                                *)
THEOREM InOrder == AFSpec => []GenerationsInOrder
BY FilesCorrect, PTL

(* A record leaves the disk only with the oldest generation. *)
THEOREM NeverOverwritten == AFSpec => NothingOverwritten
<1> DEFINE Kept == \A r \in OnDisk \ OnDisk' : pc = "unlink" /\ r \in RecordsIn(log[MaxFiles])
<1>1. ASSUME FileInv, GenerationsInOrder, [AFNext]_afVars PROVE [Kept]_afVars
  <2> USE <1>1
  <2>1. CASE UNCHANGED <<there, log>>
    BY <2>1 DEF OnDisk
  <2>2. CASE Unlink
    <3> SUFFICES ASSUME NEW r \in OnDisk, r \notin OnDisk'
                 PROVE  pc = "unlink" /\ r \in RecordsIn(log[MaxFiles])
      OBVIOUS
    <3>1. PICK s \in there : \E i \in DOMAIN log[s] : r \in log[s][i].of
      BY RecordsOnDisk
    <3>2. CASE s = MaxFiles
      BY <3>1, <3>2, <2>2 DEF Unlink, RecordsIn
    <3>3. CASE s # MaxFiles
      <4>1. s \in there' /\ log'[s] = log[s]
        BY <3>3, <2>2 DEF Unlink, FileInv, AFTypeOK
      <4> QED BY <4>1, <3>1, RecordsOnDisk
    <3> QED BY <3>2, <3>3
  <2>3. CASE pc = "shift" /\ Rename(slot)
    BY <2>3, RenameKeeps
  <2>4. CASE pc = "append" /\ \E p \in 0 .. current.size : Put(p)
    BY <2>4, PutKeeps
  <2>5. current.size \in Nat
    BY DEF FileInv, AFTypeOK
  <2> QED BY <2>1, <2>2, <2>3, <2>4, <2>5
          DEF AFNext, afVars, Emit, Shift, AppendLine, Crash, Restart
<1>2. FileInv /\ GenerationsInOrder /\ [AFNext]_afVars => [Kept]_afVars
  BY <1>1
<1> QED BY <1>2, FilesCorrect, PTL DEF AFSpec, NothingOverwritten
-----------------------------------------------------------------------------
(* What the files hold, and how large they are.                            *)

(* Every line that cannot be read back whole holds a record whose write    *)
(* failed or was cut short, and a record that was kept is on disk or was   *)
(* deleted with its generation.                                            *)
Explained(l) ==
  /\ l.readable => \E q \in Records : l.of = {q}
  /\ ~(l.readable /\ l.ended) => \E q \in l.of : outcome[q] \in {"announced", "interrupted"}

Readback ==
  /\ \A s \in Slots : \A i \in DOMAIN log[s] : Explained(log[s][i])
  /\ \A r \in Records : outcome[r] = "kept" => r \in dropped \/ r \in OnDisk

(* The sink knows the size of the live file, unless a write into it failed *)
(* half way.                                                               *)
CutShort(s) == \E i \in DOMAIN log[s] : \E q \in log[s][i].of : outcome[q] = "announced"
Fits(s) == bytes[s] <= MaxBytes \/ Len(log[s]) = 1 \/ CutShort(s)

Budget ==
  /\ \A s \in Slots : Fits(s) /\ (bytes[s] = 0 => log[s] = <<>>)
  /\ pc # "down" => liveBytes = bytes[0] \/ CutShort(0)
  /\ pc = "append" => liveBytes = 0 \/ liveBytes + current.size <= MaxBytes

(* A write changes the end of the live file and nothing else. *)
LEMMA PutLines ==
  ASSUME FileInv, pc = "append", NEW p \in 0 .. current.size, Put(p)
  PROVE  /\ bytes'[0] = bytes[0] + p
         /\ \A s \in Slots \ {0} : log'[s] = log[s] /\ bytes'[s] = bytes[s]
         /\ p = 0 => log'[0] = log[0]
         /\ p # 0 => Len(log'[0]) \in DOMAIN log'[0] /\ current.id \in log'[0][Len(log'[0])].of
         /\ log[0] = <<>> => Len(log'[0]) <= 1
         /\ \A j \in DOMAIN log[0] : j \in DOMAIN log'[0] /\ log[0][j].of \subseteq log'[0][j].of
         /\ \A j \in DOMAIN log'[0] :
              \/ j \in DOMAIN log[0] /\ log'[0][j] = log[0][j]
              \/ /\ j \in DOMAIN log[0] /\ ~log[0][j].ended
                 /\ log'[0][j].of = log[0][j].of \cup {current.id} /\ ~log'[0][j].readable
              \/ /\ log'[0][j].of = {current.id}
                 /\ log'[0][j].readable /\ log'[0][j].ended <=> p = current.size
<1> DEFINE w == Written(log[0], current, p)
<1>1. 0 \in Slots /\ log[0] \in Seq(Line) /\ current \in [id : Records, size : Nat]
  BY AuditFileAssumption DEF FileInv, AFTypeOK, Youngest, Busy, Slots, Records
<1>2. /\ log'[0] = w /\ bytes'[0] = bytes[0] + p
      /\ \A s \in Slots \ {0} : log'[s] = log[s] /\ bytes'[s] = bytes[s]
  BY <1>1 DEF Put, FileInv, AFTypeOK
<1>2a. Wrote(log[0], current, p, w)
  BY <1>1, WrittenLines
<1> HIDE DEF w
<1>3. /\ w \in Seq(Line)
      /\ Len(log[0]) <= Len(w)
      /\ \A j \in DOMAIN log[0] : log[0][j].of \subseteq w[j].of
      /\ p = 0 => w = log[0]
      /\ p # 0 => Len(w) \in DOMAIN w /\ current.id \in w[Len(w)].of
      /\ log[0] = <<>> => Len(w) <= 1
  BY <1>2a DEF Wrote
<1>4. \A j \in DOMAIN w :
        \/ j \in DOMAIN log[0] /\ w[j] = log[0][j]
        \/ /\ j = Len(w) /\ j = Len(log[0]) /\ ~log[0][j].ended
           /\ w[j].of = log[0][j].of \cup {current.id} /\ ~w[j].readable
        \/ /\ j = Len(w) /\ j = Len(log[0]) + 1
           /\ w[j].of = {current.id} /\ (w[j].readable /\ w[j].ended <=> p = current.size)
  BY <1>2a DEF Wrote
<1>5. \A j \in DOMAIN log[0] : j \in DOMAIN w
  BY <1>1, <1>3
<1>6. \A j \in DOMAIN w : j = Len(log[0]) => j \in DOMAIN log[0]
  BY <1>1, <1>3
<1> QED BY <1>2, <1>3, <1>4, <1>5, <1>6

(* What becomes of the record the sink holds says nothing about another. *)
LEMMA OutcomeOfAnother ==
  ASSUME FileInv, Busy, NEW o, outcome' = [outcome EXCEPT ![current.id] = o],
         NEW s \in Slots, NEW i \in DOMAIN log[s], NEW q \in log[s][i].of
  PROVE  outcome'[q] = outcome[q]
<1>1. q \in Nat
  BY RecordsAreNumbers DEF FileInv, AFTypeOK
<1>2. q < emitted /\ current.id = emitted
  BY DEF FileInv, Youngest
<1>3. emitted \in Nat
  BY DEF FileInv, AFTypeOK
<1>4. q # current.id
  BY <1>1, <1>2, <1>3
<1> QED BY <1>4 DEF FileInv, AFTypeOK

LEMMA StillExplained ==
  ASSUME NEW l, Explained(l), \A q \in l.of : outcome'[q] = outcome[q]
  PROVE  Explained(l)'
BY DEF Explained

LEMMA ReadbackStep ==
  ASSUME FileInv, GenerationsInOrder, Readback, [AFNext]_afVars
  PROVE  Readback'
<1> DEFINE Settles(o) == Busy /\ outcome' = [outcome EXCEPT ![current.id] = o]
           Lost == {"announced", "interrupted"}
<1>1. CASE UNCHANGED <<there, log, outcome, dropped>>
  BY <1>1 DEF Readback, Explained, OnDisk
<1>2. ASSUME NEW o \in Lost, Settles(o), UNCHANGED <<there, log, dropped>>
      PROVE  Readback'
  <2>1. \A s \in Slots : \A i \in DOMAIN log[s] : Explained(log[s][i])'
    BY <1>2, OutcomeOfAnother, StillExplained DEF Readback, Explained
  <2>2. \A r \in Records : outcome'[r] = "kept" => outcome[r] = "kept"
    BY <1>2 DEF FileInv, AFTypeOK
  <2>3. OnDisk' = OnDisk
    BY <1>2 DEF OnDisk
  <2> QED BY <1>2, <2>1, <2>2, <2>3 DEF Readback
<1>3. CASE Unlink /\ UNCHANGED outcome
  <2>1. CASE UNCHANGED <<there, log, dropped>>
    BY <1>1, <1>3, <2>1
  <2>2. CASE /\ there' = there \ {MaxFiles}
             /\ log' = [log EXCEPT ![MaxFiles] = <<>>]
             /\ dropped' = dropped \cup RecordsIn(log[MaxFiles])
    <3>1. \A s \in Slots : log'[s] = IF s = MaxFiles THEN <<>> ELSE log[s]
      BY <2>2 DEF FileInv, AFTypeOK
    <3>2. \A s \in Slots : \A i \in DOMAIN log'[s] : Explained(log[s][i])'
      BY <1>3, <3>1 DEF Readback, Explained
    <3>3. ASSUME NEW r \in OnDisk PROVE r \in dropped' \/ r \in OnDisk'
      <4>1. PICK s \in there : \E i \in DOMAIN log[s] : r \in log[s][i].of
        BY RecordsOnDisk
      <4>2. CASE s = MaxFiles
        BY <2>2, <4>1, <4>2 DEF RecordsIn
      <4>3. CASE s # MaxFiles
        <5>1. s \in there' /\ log'[s] = log[s]
          BY <2>2, <3>1, <4>3 DEF FileInv, AFTypeOK
        <5> QED BY <4>1, <5>1, RecordsOnDisk
      <4> QED BY <4>2, <4>3
    <3> QED BY <1>3, <2>2, <3>2, <3>3 DEF Readback
  <2> QED BY <1>3, <2>1, <2>2 DEF Unlink
<1>4. CASE pc = "shift" /\ Rename(slot) /\ UNCHANGED <<outcome, dropped>>
  <2>1. /\ OnDisk \subseteq OnDisk'
        /\ log'[slot] = <<>>
        /\ \A t \in Slots \ {slot} : \E s \in Slots : log'[t] = log[s]
    BY <1>4, RenameKeeps
  <2>2. ASSUME NEW t \in Slots, NEW i \in DOMAIN log'[t]
        PROVE  Explained(log[t][i])'
    <3>1. PICK s \in Slots : log'[t] = log[s]
      BY <2>1, <2>2
    <3>2. Explained(log[s][i])
      BY <2>2, <3>1 DEF Readback
    <3> QED BY <1>4, <3>1, <3>2 DEF Explained
  <2> QED BY <1>4, <2>1, <2>2 DEF Readback
<1>5. ASSUME NEW p \in 0 .. current.size, Put(p), pc = "append", UNCHANGED dropped,
             NEW o \in Lost \cup {"kept"}, Settles(o), p = current.size \/ o # "kept"
      PROVE  Readback'
  <2>1. /\ \A s \in Slots \ {0} : log'[s] = log[s]
        /\ p # 0 => Len(log'[0]) \in DOMAIN log'[0] /\ current.id \in log'[0][Len(log'[0])].of
        /\ \A j \in DOMAIN log'[0] :
             \/ j \in DOMAIN log[0] /\ log'[0][j] = log[0][j]
             \/ /\ j \in DOMAIN log[0] /\ ~log[0][j].ended
                /\ log'[0][j].of = log[0][j].of \cup {current.id} /\ ~log'[0][j].readable
             \/ /\ log'[0][j].of = {current.id}
                /\ log'[0][j].readable /\ log'[0][j].ended <=> p = current.size
    BY <1>5, PutLines
  <2>2. OnDisk \subseteq OnDisk' /\ there' = there \cup {0}
    BY <1>5, PutKeeps DEF Put
  <2>3. /\ current.id \in Records /\ 0 \in Slots /\ current.size >= 1
        /\ outcome'[current.id] = o
        /\ \A r \in Records : r # current.id => outcome'[r] = outcome[r]
    BY <1>5, AuditFileAssumption DEF FileInv, AFTypeOK, Youngest, Records, Slots
  <2>4. \A r \in Records : outcome'[r] = "kept" => r \in dropped' \/ r \in OnDisk'
    <3>1. o = "kept" => current.id \in OnDisk'
      BY <1>5, <2>1, <2>2, <2>3, RecordsOnDisk
    <3> QED BY <1>5, <2>2, <2>3, <3>1 DEF Readback
  <2>5. ASSUME NEW s \in Slots \ {0}, NEW i \in DOMAIN log'[s]
        PROVE  Explained(log[s][i])'
    <3>1. i \in DOMAIN log[s] /\ Explained(log[s][i])
      BY <2>1, <2>5 DEF Readback
    <3>2. \A q \in log[s][i].of : outcome'[q] = outcome[q]
      BY <1>5, <3>1, OutcomeOfAnother
    <3> QED BY <2>1, <3>1, <3>2 DEF Explained
  <2>6. ASSUME NEW j \in DOMAIN log'[0]
        PROVE  Explained(log[0][j])'
    <3>1. CASE j \in DOMAIN log[0] /\ log'[0][j] = log[0][j]
      <4>1. Explained(log[0][j])
        BY <2>3, <3>1 DEF Readback
      <4>2. \A q \in log[0][j].of : outcome'[q] = outcome[q]
        BY <1>5, <2>3, <3>1, OutcomeOfAnother
      <4> QED BY <3>1, <4>1, <4>2 DEF Explained
    <3>2. CASE /\ j \in DOMAIN log[0] /\ ~log[0][j].ended
               /\ log'[0][j].of = log[0][j].of \cup {current.id} /\ ~log'[0][j].readable
      <4>1. PICK q \in log[0][j].of : outcome[q] \in Lost
        BY <2>3, <3>2 DEF Readback, Explained
      <4>2. outcome'[q] = outcome[q]
        BY <1>5, <2>3, <3>2, <4>1, OutcomeOfAnother
      <4> QED BY <3>2, <4>1, <4>2 DEF Explained
    <3>3. CASE /\ log'[0][j].of = {current.id}
               /\ log'[0][j].readable /\ log'[0][j].ended <=> p = current.size
      <4>1. ~(log'[0][j].readable /\ log'[0][j].ended) => outcome'[current.id] \in Lost
        BY <1>5, <2>3, <3>3
      <4> QED BY <2>3, <3>3, <4>1 DEF Explained
    <3> QED BY <2>1, <2>6, <3>1, <3>2, <3>3
  <2> QED BY <2>4, <2>5, <2>6 DEF Readback
<1> HIDE DEF Settles
<1>6. CASE Unlink \/ Shift
  <2>1. CASE Announce /\ UNCHANGED <<there, log, dropped>>
    BY <2>1, <1>2, <1>6 DEF Settles, Announce, Busy, Unlink, Shift
  <2>2. CASE Unlink /\ UNCHANGED outcome
    BY <2>2, <1>3
  <2>3. CASE Shift /\ Rename(slot) /\ UNCHANGED outcome
    BY <2>3, <1>4 DEF Shift
  <2> QED BY <1>6, <2>1, <2>2, <2>3 DEF Unlink, Shift
<1>7. CASE AppendLine
  <2>1. pc = "append" /\ Busy /\ UNCHANGED dropped /\ current.size \in Nat
    BY <1>7 DEF AppendLine, Busy, FileInv, AFTypeOK
  <2>2. CASE Put(current.size) /\ outcome' = [outcome EXCEPT ![current.id] = "kept"]
    BY <2>1, <2>2, <1>5 DEF Settles
  <2>3. CASE Announce /\ \E p \in 0 .. current.size - 1 : Put(p)
    BY <2>1, <2>3, <1>5 DEF Settles, Announce
  <2>4. CASE Announce /\ UNCHANGED <<there, log, bytes>>
    BY <2>1, <2>4, <1>2 DEF Settles, Announce
  <2> QED BY <1>7, <2>2, <2>3, <2>4 DEF AppendLine
<1>8. CASE Crash
  <2>1. UNCHANGED dropped
    BY <1>8 DEF Crash
  <2>2. CASE pc = "idle"
    BY <1>1, <1>8, <2>2 DEF Crash
  <2>3. CASE pc # "idle"
    <3>1. Settles("interrupted")
      BY <1>8, <2>3 DEF Crash, Settles, Busy, FileInv, AFTypeOK
    <3>2. CASE UNCHANGED <<there, log, bytes>>
      BY <2>1, <3>1, <3>2, <1>2
    <3>3. CASE pc = "append" /\ \E p \in 0 .. current.size : Put(p)
      BY <2>1, <3>1, <3>3, <1>5
    <3> QED BY <1>8, <3>2, <3>3 DEF Crash
  <2> QED BY <2>2, <2>3
<1> QED BY <1>1, <1>6, <1>7, <1>8 DEF AFNext, afVars, Emit, Restart

(* A file that a failed write has cut short stays one. *)
LEMMA StillCutShort ==
  ASSUME FileInv, Busy, NEW o, outcome' = [outcome EXCEPT ![current.id] = o],
         NEW s \in Slots, CutShort(s),
         \A i \in DOMAIN log[s] : i \in DOMAIN log'[s] /\ log[s][i].of \subseteq log'[s][i].of
  PROVE  CutShort(s)'
<1>1. PICK i \in DOMAIN log[s] : \E q \in log[s][i].of : outcome[q] = "announced"
  BY DEF CutShort
<1>2. PICK q \in log[s][i].of : outcome[q] = "announced"
  BY <1>1
<1>3. outcome'[q] = "announced"
  BY <1>2, OutcomeOfAnother
<1> QED BY <1>2, <1>3 DEF CutShort

LEMMA BudgetStep ==
  ASSUME FileInv, GenerationsInOrder, Budget, [AFNext]_afVars
  PROVE  Budget'
<1> DEFINE Settles(o) == Busy /\ outcome' = [outcome EXCEPT ![current.id] = o]
<1>0. /\ 0 \in Slots /\ MaxFiles \in Slots /\ MaxFiles # 0 /\ MaxBytes \in Nat
      /\ liveBytes \in Nat /\ current.size \in Nat /\ \A s \in Slots : bytes[s] \in Nat
  BY AuditFileAssumption DEF FileInv, AFTypeOK, Slots
<1>1. CASE UNCHANGED afVars
  BY <1>1 DEF afVars, Budget, Fits, CutShort
<1>2. CASE Emit
  <2>1. PICK size \in Sizes : /\ current' = [id |-> emitted + 1, size |-> size]
                              /\ pc' = IF liveBytes > 0 /\ liveBytes + size > MaxBytes
                                       THEN "unlink" ELSE "append"
    BY <1>2 DEF Emit
  <2>2. pc = "idle" /\ UNCHANGED <<log, bytes, liveBytes, outcome>>
    BY <1>2 DEF Emit
  <2>3. size \in Nat
    BY AuditFileAssumption
  <2>4. pc' = "append" => liveBytes' = 0 \/ liveBytes' + current'.size <= MaxBytes
    BY <2>1, <2>2, <2>3, <1>0
  <2> QED BY <2>2, <2>4 DEF Budget, Fits, CutShort
<1>3. CASE Restart
  <2>1. UNCHANGED <<log, bytes, outcome>> /\ pc' = "idle" /\ liveBytes' = bytes[0]
    BY <1>3, <1>0 DEF Restart, FileInv, AFTypeOK
  <2> QED BY <2>1 DEF Budget, Fits, CutShort
<1>4. ASSUME NEW o, Settles(o), UNCHANGED <<log, bytes, liveBytes>>, pc # "down", pc' \in {"idle", "down"}
      PROVE  Budget'
  <2>1. \A s \in Slots : CutShort(s) => CutShort(s)'
    BY <1>4, StillCutShort
  <2> QED BY <1>4, <1>0, <2>1 DEF Budget, Fits
<1>5. CASE /\ pc = "unlink" /\ pc' = "shift" /\ UNCHANGED <<outcome, liveBytes>>
           /\ log' = [log EXCEPT ![MaxFiles] = <<>>]
           /\ bytes' = [bytes EXCEPT ![MaxFiles] = 0]
  <2>1. \A s \in Slots : /\ log'[s] = IF s = MaxFiles THEN <<>> ELSE log[s]
                         /\ bytes'[s] = IF s = MaxFiles THEN 0 ELSE bytes[s]
    <3>1. log \in [Slots -> Seq(Line)] /\ bytes \in [Slots -> Nat]
      BY DEF FileInv, AFTypeOK
    <3> QED BY <1>5, <3>1
  <2>2. ASSUME NEW s \in Slots PROVE Fits(s)' /\ (bytes'[s] = 0 => log'[s] = <<>>)
    <3>1. CASE s = MaxFiles
      BY <2>1, <3>1, <1>0 DEF Fits
    <3>2. CASE s # MaxFiles
      <4>1. Fits(s) /\ (bytes[s] = 0 => log[s] = <<>>)
        BY DEF Budget
      <4>2. log'[s] = log[s] /\ bytes'[s] = bytes[s]
        BY <2>1, <3>2
      <4> QED BY <1>5, <4>1, <4>2 DEF Fits, CutShort
    <3> QED BY <3>1, <3>2
  <2>3. liveBytes' = bytes'[0] \/ CutShort(0)'
    <3>1. log'[0] = log[0] /\ bytes'[0] = bytes[0]
      BY <2>1, <1>0
    <3> QED BY <1>5, <3>1 DEF Budget, CutShort
  <2> QED BY <1>5, <2>2, <2>3 DEF Budget
<1>6. CASE /\ pc = "shift" /\ Rename(slot) /\ UNCHANGED outcome
           /\ IF slot = 0 THEN pc' = "append" /\ liveBytes' = 0 /\ UNCHANGED slot
              ELSE slot' = slot - 1 /\ UNCHANGED <<pc, liveBytes>>
  <2>1. /\ log'[slot] = <<>> /\ bytes'[slot] = 0
        /\ \A t \in Slots \ {slot} : \E s \in Slots :
             log'[t] = log[s] /\ bytes'[t] = bytes[s] /\ (t # slot + 1 => s = t)
    BY <1>6, RenameKeeps
  <2>2. ASSUME NEW t \in Slots
        PROVE  Fits(t)' /\ (bytes'[t] = 0 => log'[t] = <<>>)
    <3>1. CASE t = slot
      BY <2>1, <3>1, <1>0 DEF Fits
    <3>2. CASE t # slot
      <4>1. PICK s \in Slots : log'[t] = log[s] /\ bytes'[t] = bytes[s]
        BY <2>1, <3>2
      <4>2. Fits(s) /\ (bytes[s] = 0 => log[s] = <<>>)
        BY DEF Budget
      <4> QED BY <1>6, <4>1, <4>2 DEF Fits, CutShort
    <3> QED BY <3>1, <3>2
  <2>3. slot \in Nat /\ (slot # 0 => log'[0] = log[0] /\ bytes'[0] = bytes[0])
    <3>1. slot \in Nat
      BY DEF FileInv, AFTypeOK
    <3> QED BY <2>1, <3>1, <1>0
  <2>4. pc' # "down" => liveBytes' = bytes'[0] \/ CutShort(0)'
    BY <1>6, <2>1, <2>3 DEF Budget, CutShort
  <2>5. pc' = "append" => liveBytes' = 0
    BY <1>6
  <2> QED BY <2>2, <2>4, <2>5 DEF Budget
<1>7. ASSUME NEW p \in 0 .. current.size, Put(p), pc = "append", NEW o, Settles(o),
             \/ pc' = "idle" /\ p = current.size /\ liveBytes' = liveBytes + current.size
             \/ pc' = "idle" /\ o = "announced" /\ liveBytes' = liveBytes
             \/ pc' = "down"
      PROVE  Budget'
  <2>1. /\ bytes'[0] = bytes[0] + p /\ p \in Nat
        /\ \A s \in Slots \ {0} : log'[s] = log[s] /\ bytes'[s] = bytes[s]
        /\ p = 0 => log'[0] = log[0]
        /\ p # 0 => Len(log'[0]) \in DOMAIN log'[0] /\ current.id \in log'[0][Len(log'[0])].of
        /\ log[0] = <<>> => Len(log'[0]) <= 1
        /\ \A j \in DOMAIN log[0] : j \in DOMAIN log'[0] /\ log[0][j].of \subseteq log'[0][j].of
    BY <1>7, <1>0, PutLines
  <2>2. \A s \in Slots : CutShort(s) => CutShort(s)'
    BY <1>7, <2>1, StillCutShort
  <2>3. liveBytes = bytes[0] \/ CutShort(0)
    BY <1>7 DEF Budget
  <2>4. Fits(0)'
    <3>1. CASE CutShort(0)
      BY <2>2, <3>1, <1>0 DEF Fits
    <3>2. CASE bytes[0] = 0 /\ p = 0
      BY <2>1, <3>2, <1>0 DEF Fits
    <3>3. CASE bytes[0] = 0 /\ p # 0
      <4>1. log'[0] \in Seq(Line) /\ log[0] = <<>>
        BY <1>7, <3>3, <1>0, PutKeeps DEF Budget
      <4>2. Len(log'[0]) \in Nat /\ DOMAIN log'[0] = 1 .. Len(log'[0])
        BY <4>1
      <4>3. Len(log'[0]) \in DOMAIN log'[0] /\ Len(log'[0]) <= 1
        BY <2>1, <3>3, <4>1, Zenon
      <4>4. \A n \in Nat : n \in 1 .. n /\ n <= 1 => n = 1
        OBVIOUS
      <4>5. Len(log'[0]) = 1
        BY <4>2, <4>3, <4>4, Zenon
      <4> QED BY <4>5 DEF Fits
    <3>4. CASE ~CutShort(0) /\ bytes[0] # 0
      <4>1. bytes[0] + current.size <= MaxBytes
        BY <1>7, <2>3, <3>4 DEF Budget
      <4>2. p <= current.size /\ p \in Nat
        BY <1>0
      <4>3. bytes'[0] <= MaxBytes
        BY <2>1, <4>1, <4>2, <1>0
      <4> QED BY <4>3 DEF Fits
    <3> QED BY <3>1, <3>2, <3>3, <3>4
  <2>5. bytes'[0] = 0 => log'[0] = <<>>
    <3>1. bytes'[0] = 0 => p = 0 /\ bytes[0] = 0
      BY <2>1, <1>0
    <3> QED BY <2>1, <3>1, <1>0 DEF Budget
  <2>6. \A s \in Slots \ {0} : Fits(s)' /\ (bytes'[s] = 0 => log'[s] = <<>>)
    BY <2>1, <2>2 DEF Budget, Fits
  <2>7. pc' # "down" => liveBytes' = bytes'[0] \/ CutShort(0)'
    <3>1. CASE CutShort(0)
      BY <2>2, <3>1, <1>0
    <3>2. CASE pc' = "idle" /\ p = current.size /\ liveBytes' = liveBytes + current.size
      BY <2>1, <2>3, <3>2, <2>2, <1>0
    <3>3. CASE p = 0 /\ liveBytes' = liveBytes
      BY <2>1, <2>3, <3>3, <2>2, <1>0
    <3>4. CASE p # 0 /\ o = "announced"
      <4>1. outcome'[current.id] = "announced"
        BY <1>7, <3>4 DEF FileInv, AFTypeOK, Youngest, Records
      <4> QED BY <2>1, <3>4, <4>1 DEF CutShort
    <3> QED BY <1>7, <3>1, <3>2, <3>3, <3>4
  <2> QED BY <1>7, <2>4, <2>5, <2>6, <2>7 DEF Budget
<1> HIDE DEF Settles
<1>8. CASE Unlink
  BY <1>8, <1>4, <1>5 DEF Unlink, Announce, Settles, Busy
<1>9. CASE Shift
  BY <1>9, <1>4, <1>6 DEF Shift, Announce, Settles, Busy
<1>10. CASE AppendLine
  <2>1. pc = "append" /\ Busy /\ pc' = "idle"
    BY <1>10 DEF AppendLine, Announce, Busy
  <2>2. CASE /\ Put(current.size) /\ outcome' = [outcome EXCEPT ![current.id] = "kept"]
             /\ liveBytes' = liveBytes + current.size
    <3>1. current.size \in 0 .. current.size
      BY <1>0
    <3> QED BY <2>1, <2>2, <3>1, <1>7 DEF Settles
  <2>3. CASE Announce /\ UNCHANGED liveBytes /\ \E p \in 0 .. current.size - 1 : Put(p)
    <3>1. PICK p \in 0 .. current.size - 1 : Put(p)
      BY <2>3
    <3>2. p \in 0 .. current.size
      BY <1>0
    <3> QED BY <2>1, <2>3, <3>1, <3>2, <1>7 DEF Settles, Announce
  <2>4. CASE Announce /\ UNCHANGED <<there, log, bytes, liveBytes>>
    BY <2>1, <2>4, <1>4 DEF Settles, Announce
  <2> QED BY <1>10, <2>2, <2>3, <2>4 DEF AppendLine
<1>11. CASE Crash
  <2>1. pc # "down" /\ pc' = "down" /\ UNCHANGED liveBytes
    BY <1>11 DEF Crash
  <2>2. CASE pc = "idle"
    BY <1>11, <2>1, <2>2 DEF Crash, Budget, Fits, CutShort
  <2>3. CASE pc # "idle"
    <3>1. Settles("interrupted")
      BY <1>11, <2>3 DEF Crash, Settles, Busy, FileInv, AFTypeOK
    <3>2. CASE UNCHANGED <<there, log, bytes>>
      BY <2>1, <3>1, <3>2, <1>4
    <3>3. CASE pc = "append" /\ \E p \in 0 .. current.size : Put(p)
      BY <2>1, <3>1, <3>3, <1>7
    <3> QED BY <1>11, <3>2, <3>3 DEF Crash
  <2> QED BY <2>2, <2>3
<1> QED BY <1>1, <1>2, <1>3, <1>8, <1>9, <1>10, <1>11 DEF AFNext

LEMMA ContentInit == AFInit => Readback /\ Budget
BY AuditFileAssumption DEF AFInit, Readback, Budget, Fits, OnDisk, Slots, Records

LEMMA ContentCorrect == AFSpec => []Readback /\ []Budget
<1>1. FileInv /\ GenerationsInOrder /\ Readback /\ [AFNext]_afVars => Readback'
  BY ReadbackStep
<1>2. FileInv /\ GenerationsInOrder /\ Budget /\ [AFNext]_afVars => Budget'
  BY BudgetStep
<1> QED BY <1>1, <1>2, ContentInit, FilesCorrect, PTL DEF AFSpec

(* A record whose sink call returned can be read back until the generation *)
(* that holds it is deleted, whatever fails and whenever the process dies, *)
(* unless it shares its line with a record whose write was cut short.      *)
THEOREM KeptReadBack == AFSpec => []KeptIsReadable
<1>1. FileInv /\ Readback => KeptIsReadable
  <2> SUFFICES ASSUME FileInv, Readback, NEW r \in Records, outcome[r] = "kept", r \notin dropped
               PROVE  \/ Readable(r)
                      \/ \E s \in there : \E i \in DOMAIN log[s] :
                           r \in log[s][i].of /\ \E q \in log[s][i].of : outcome[q] \in {"announced", "interrupted"}
    BY DEF KeptIsReadable
  <2>1. PICK s \in there : \E i \in DOMAIN log[s] : r \in log[s][i].of
    BY RecordsOnDisk DEF Readback
  <2>2. PICK i \in DOMAIN log[s] : r \in log[s][i].of
    BY <2>1
  <2>3. Explained(log[s][i])
    BY <2>2 DEF Readback, FileInv, AFTypeOK
  <2> QED BY <2>2, <2>3 DEF Explained, Readable
<1> QED BY <1>1, FilesCorrect, ContentCorrect, PTL

(* No file outgrows the budget unless one record alone does or a write     *)
(* into it failed half way, over any number of rotations and restarts.     *)
THEOREM WithinBudget == AFSpec => []FileBudget
<1>1. FileInv /\ Budget => FileBudget
  BY DEF FileInv, AFTypeOK, Budget, Fits, CutShort, FileBudget
<1> QED BY <1>1, FilesCorrect, ContentCorrect, PTL

(* Every reachable state of the sink is of the stated type. *)
THEOREM AFTypeCorrect == AFSpec => []AFTypeOK
<1>1. FileInv => AFTypeOK
  BY DEF FileInv
<1> QED BY <1>1, FilesCorrect, PTL
=============================================================================
