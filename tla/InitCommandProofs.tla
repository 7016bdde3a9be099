-------------------------- MODULE InitCommandProofs --------------------------
(***************************************************************************)
(* What holds of `archstone init` whatever it is started with, for every   *)
(* backend, every answer and every moment at which the author saves, the   *)
(* input ends or the process is killed: the target is what its author has  *)
(* or what compiled as a whole, no probe goes out that nobody agreed to,   *)
(* each asks the operation its decision names, and a contract that is      *)
(* committed is the shape of an answer and was replayed.  What is emitted  *)
(* compiles, and its mappings take every body that the source allows.      *)
(***************************************************************************)
EXTENDS InitCommand, ManifestProofs, SequenceTheorems

Fields == {"pc", "record", "decisions", "keepAll", "files", "ir", "todo", "recorded", "verdict", "overlay"}

(* The places of the run before its copy. *)
Working == {"start", "company", "gate", "emit", "staging", "probe", "replay", "commit"}
Committing == {"copy", "report", "done"}

(* The command's state is a record whose fields stay. *)
RunIsRecord == DOMAIN run = Fields /\ run.pc \in Working \cup Committing \cup {"over"}

-----------------------------------------------------------------------------
(* The target. *)

(* What is laid over the target: all that was emitted, and with --force    *)
(* what was there.  It compiles.                                           *)
OverlayChecked ==
  /\ run.overlay = LaidOver(run.files, IF args.force THEN before ELSE NoFiles)
  /\ compileManifest(run.overlay)
  /\ ~args.force => before = NoFiles

Reported(files) == Put(files, ReportFile, None)

TargetByStage ==
  /\ run.pc \in Working \cup {"copy"} => result = None /\ target = before
  /\ run.pc \in Committing => OverlayChecked
  /\ run.pc = "report" => result = "ok" /\ target = run.overlay
  /\ run.pc = "done" => result = "ok" /\ target \in {run.overlay, Reported(run.overlay)}
  /\ run.pc = "over" => \/ result \in {"refused", "killed"} /\ target = before
                        \/ result = "broken off"

CommitInv == RunIsRecord /\ TargetByStage

-----------------------------------------------------------------------------
(* Consent. *)
Arguments == {c.args : c \in Cases}

(* Nothing is sent before the run probes, and what it goes through then    *)
(* are the decisions it began with.                                        *)
Decided ==
  /\ args \in Arguments
  /\ IsSequence(run.decisions)
  /\ run.pc \in {"start", "company", "gate", "emit", "staging"} => requests = {}
  /\ run.pc = "gate" => DOMAIN run.record = {"company", "provider", "baseUrlEnvVar", "authEnvVar", "decisions"}
  /\ run.pc \in {"emit", "staging"} => IsSequence(run.record.decisions)
  /\ run.pc = "probe" => run.todo \in Seq(Docs(run.record.decisions))

ConsentInv == RunIsRecord /\ Decided /\ ProbesConsented

-----------------------------------------------------------------------------
(* Contracts. *)

(* What is recorded was answered to a probe. *)
RecordedAreProbed ==
  \A id \in DOMAIN run.recorded :
    \E r \in requests : /\ r.by = "probe" /\ r.id = id
                        /\ fingerprintShape(r.answer) = run.recorded[id].fingerprint

(* The contracts of the emitted files are recorded ones; the first         *)
(* emission has none, and only those that replayed are committed.          *)
ContractsByStage ==
  \A b \in Emitted : b.contract # None =>
    /\ run.pc \in {"replay", "commit"} \cup Committing
    /\ b.capabilityId \in DOMAIN run.recorded
    /\ b.contract.fingerprint = run.recorded[b.capabilityId].fingerprint
    /\ run.pc # "replay" => b.capabilityId \in DOMAIN run.verdict /\ run.verdict[b.capabilityId] # "red"

ContractInv == RunIsRecord /\ RecordedAreProbed /\ ContractsByStage

-----------------------------------------------------------------------------
(* Lemmas. *)

(* A report is no document of a manifest: what is loaded stays the same.   *)
LEMMA ReportIsNotLoaded ==
  ASSUME NEW files PROVE toDisk(Reported(files)) = toDisk(files)
<1>2. ReportFile[1] = "report" /\ CapabilitiesFile[1] = "capabilities" /\ ReportFile # CapabilitiesFile
  BY DEF ReportFile, CapabilitiesFile, FilePath
<1>3. DOMAIN Reported(files) = DOMAIN files \cup {ReportFile}
  BY DEF Reported, Put
<1>4. ASSUME NEW p \in DOMAIN files, p # ReportFile PROVE Reported(files)[p] = files[p]
  BY <1>4 DEF Reported, Put
<1>5. ASSUME NEW kind, kind # "report" PROVE DocsOf(Reported(files), kind) = DocsOf(files, kind)
  <2>1. FilesOf(Reported(files), kind) = FilesOf(files, kind)
    BY <1>2, <1>3, <1>5 DEF FilesOf
  <2>2. ReportFile \notin FilesOf(files, kind)
    BY <1>2, <1>5 DEF FilesOf
  <2>3. \A p \in FilesOf(files, kind) : Reported(files)[p] = files[p]
    BY <2>2, <1>4 DEF FilesOf
  <2>4. Restrict(Reported(files), FilesOf(files, kind)) = Restrict(files, FilesOf(files, kind))
    BY <2>3 DEF Restrict
  <2> QED
    BY <2>1, <2>4 DEF DocsOf
<1> QED
  BY <1>2, <1>3, <1>4, <1>5 DEF toDisk

(* What stays of the target is in the overlay. *)
LEMMA OverlayIsAll ==
  ASSUME OverlayChecked PROVE LaidOver(run.overlay, before) = run.overlay
<1>1. CASE args.force
  BY <1>1 DEF OverlayChecked, LaidOver
<1>2. CASE ~args.force
  BY <1>2 DEF OverlayChecked, NoFiles, LaidOver
<1> QED
  BY <1>1, <1>2

LEMMA CommitInit == Init => CommitInv
BY DEF Init, CommitInv, RunIsRecord, TargetByStage, Started, NoRun, Fields, Working, Committing

LEMMA RecordStays ==
  ASSUME CommitInv, [Next]_vars PROVE RunIsRecord'
<1> USE DEF CommitInv, RunIsRecord, Fields, Working, Committing
<1>1. CASE UNCHANGED vars
  BY <1>1 DEF vars
<1>2. CASE AuthorSaves \/ BackendChanges
  BY <1>2 DEF AuthorSaves, BackendChanges
<1>3. CASE runInitCmd \/ GateOpens \/ AnswerCandidate \/ GateCloses \/ GateGivesUp \/ InputEnds
  BY <1>3 DEF runInitCmd, GateOpens, AnswerCandidate, GateCloses, GateGivesUp, InputEnds, Over, Goes, NoRun, Started
<1>4. CASE EmitFirst \/ StagingCompiles \/ ProbesDone \/ ReplaysDone
  BY <1>4 DEF EmitFirst, StagingCompiles, ProbesDone, ReplaysDone, Over, Goes, NoRun
<1>5. CASE runProbes \/ verifyRecorded
  BY <1>5 DEF runProbes, Probes, verifyRecorded, Replays
<1>6. CASE commitFileSet \/ CopyDone \/ CopyBreaksOff \/ ReportWritten \/ Killed
  BY <1>6 DEF commitFileSet, CopyDone, CopyBreaksOff, ReportWritten, Killed, Over, NoRun
<1> QED
  BY <1>1, <1>2, <1>3, <1>4, <1>5, <1>6 DEF Next

(* Before its copy the command leaves the target alone; what ends it there *)
(* is a refusal or its death.                                              *)
LEMMA StillUntouched ==
  ASSUME CommitInv, RunIsRecord', run.pc \in Working, UNCHANGED <<target, before>>,
         \/ run'.pc \in Working /\ UNCHANGED result
         \/ run'.pc = "over" /\ result' \in {"refused", "killed"}
  PROVE  TargetByStage'
BY DEF CommitInv, RunIsRecord, TargetByStage, Working, Committing

LEMMA TargetStep ==
  ASSUME CommitInv, [Next]_vars PROVE TargetByStage'
<1>1. RunIsRecord /\ TargetByStage /\ RunIsRecord'
  BY RecordStays DEF CommitInv
<1>2. CASE UNCHANGED vars
  BY <1>1, <1>2 DEF vars, TargetByStage, OverlayChecked, compileManifest
<1>3. CASE AuthorSaves
  BY <1>1, <1>3 DEF AuthorSaves, TargetByStage, Working, Committing
<1>4. CASE BackendChanges
  BY <1>1, <1>4 DEF BackendChanges, TargetByStage, Working, Committing
<1>5. CASE runInitCmd \/ GateOpens \/ AnswerCandidate \/ GateCloses \/ GateGivesUp \/ InputEnds
  BY <1>1, <1>5, StillUntouched
     DEF runInitCmd, GateOpens, AnswerCandidate, GateCloses, GateGivesUp, InputEnds, Over, Goes, NoRun, Started,
         RunIsRecord, Fields, Working
<1>6. CASE EmitFirst \/ StagingCompiles \/ ProbesDone \/ ReplaysDone
  BY <1>1, <1>6, StillUntouched
     DEF EmitFirst, StagingCompiles, ProbesDone, ReplaysDone, Over, Goes, NoRun, RunIsRecord, Fields, Working
<1>7. CASE runProbes \/ verifyRecorded
  BY <1>1, <1>7, StillUntouched DEF runProbes, Probes, verifyRecorded, Replays, RunIsRecord, Fields, Working
<1>8. CASE Killed \/ (commitFileSet /\ run'.pc = "over")
  <2>1. CASE Killed
    BY <1>1, <2>1, StillUntouched DEF Killed, Over, NoRun, RunIsRecord, Fields, Working, Committing
  <2>2. CASE commitFileSet /\ run'.pc = "over"
    <3>1. run.pc = "commit" /\ UNCHANGED <<target, before>> /\ result' = "refused"
      BY <1>1, <2>2 DEF commitFileSet, Over, RunIsRecord, Fields
    <3> QED
      BY <1>1, <2>2, <3>1, StillUntouched DEF Working
  <2> QED
    BY <1>8, <2>1, <2>2
<1>9. CASE commitFileSet /\ run'.pc # "over"
  <2>1. run.pc = "commit" /\ run'.pc = "copy" /\ UNCHANGED <<args, target, before, result>>
    BY <1>1, <1>9 DEF commitFileSet, Over, NoRun, RunIsRecord, Fields, world
  <2>2. /\ run'.files = run.files
        /\ run'.overlay = LaidOver(run.files, IF args.force THEN target ELSE NoFiles)
        /\ target # NoFiles => args.force
        /\ stagedCompiles(run.files, run'.overlay)
    BY <1>1, <1>9 DEF commitFileSet, Over, NoRun, RunIsRecord, Fields
  <2>3. target = before
    BY <1>1, <2>1 DEF TargetByStage, Working
  <2> QED
    BY <1>1, <2>1, <2>2, <2>3 DEF TargetByStage, OverlayChecked, stagedCompiles, Working, Committing
<1>10. CASE CopyDone
  <2>1. run.pc = "copy" /\ run'.pc = "report" /\ result' = "ok" /\ UNCHANGED <<args, before>>
        /\ run'.files = run.files /\ run'.overlay = run.overlay
    BY <1>1, <1>10 DEF CopyDone, RunIsRecord, Fields, world
  <2>2. target = before /\ OverlayChecked
    BY <1>1, <2>1 DEF TargetByStage, Committing
  <2>3. target' = run.overlay
    BY <1>10, <2>2, OverlayIsAll DEF CopyDone
  <2> QED
    BY <2>1, <2>2, <2>3 DEF TargetByStage, OverlayChecked, Working, Committing
<1>11. CASE CopyBreaksOff
  BY <1>1, <1>11 DEF CopyBreaksOff, Over, NoRun, TargetByStage, Working, Committing
<1>12. CASE ReportWritten
  <2>1. run.pc = "report" /\ run'.pc = "done" /\ UNCHANGED <<args, before, result>>
        /\ run'.files = run.files /\ run'.overlay = run.overlay
    BY <1>1, <1>12 DEF ReportWritten, RunIsRecord, Fields, world
  <2>2. target = run.overlay /\ OverlayChecked /\ result = "ok"
    BY <1>1, <2>1 DEF TargetByStage, Committing
  <2>3. target' \in {run.overlay, Reported(run.overlay)}
    BY <1>12, <2>2 DEF ReportWritten, Reported
  <2> QED
    BY <2>1, <2>2, <2>3 DEF TargetByStage, OverlayChecked, Working, Committing
<1> QED
  BY <1>2, <1>3, <1>4, <1>5, <1>6, <1>7, <1>8, <1>9, <1>10, <1>11, <1>12 DEF Next

(* The inductive invariant says how a run that succeeds leaves the target. *)
LEMMA StageTells ==
  ASSUME CommitInv PROVE CommittedOrUntouched
<1>1. CASE result \in {None, "refused", "killed"}
  <2>1. target = before
    BY <1>1, OutcomeAssumption DEF CommitInv, RunIsRecord, TargetByStage, Working, Committing
  <2> QED
    BY <1>1, <2>1, OutcomeAssumption DEF CommittedOrUntouched
<1>2. CASE result = "ok"
  <2>1. run.pc \in {"report", "done"}
    BY <1>2, OutcomeAssumption DEF CommitInv, RunIsRecord, TargetByStage, Working, Committing
  <2>2. OverlayChecked /\ target \in {run.overlay, Reported(run.overlay)}
    BY <2>1 DEF CommitInv, TargetByStage, Committing
  <2>3. compileManifest(target)
    BY <2>2, ReportIsNotLoaded DEF OverlayChecked, compileManifest
  <2>4. ASSUME NEW p \in DOMAIN before, p # ReportFile
        PROVE  target[p] = (IF p \in DOMAIN run.files THEN run.files[p] ELSE before[p])
    <3>1. run.overlay[p] = (IF p \in DOMAIN run.files THEN run.files[p] ELSE before[p]) /\ p \in DOMAIN run.overlay
      BY <2>2, <2>4 DEF OverlayChecked, LaidOver, NoFiles
    <3>2. Reported(run.overlay)[p] = run.overlay[p]
      BY <3>1, <2>4 DEF Reported, Put
    <3> QED
      BY <2>2, <3>1, <3>2
  <2>5. DOMAIN target \ DOMAIN before \subseteq DOMAIN run.files \cup {ReportFile}
    BY <2>2 DEF OverlayChecked, Reported, Put, LaidOver, NoFiles
  <2> QED
    BY <1>2, <2>2, <2>3, <2>4, <2>5, OutcomeAssumption DEF CommittedOrUntouched, OverlayChecked
<1>3. CASE result = "broken off"
  BY <1>3, OutcomeAssumption DEF CommittedOrUntouched
<1> QED
  BY <1>1, <1>2, <1>3 DEF CommitInv, RunIsRecord, TargetByStage, Working, Committing

(* All or nothing, whatever init is started with: a run that is refused or *)
(* killed before its copy leaves the target as the author has it, and one  *)
(* that succeeds leaves a manifest that compiles as a whole and has lost   *)
(* nothing of the author's that was not emitted anew (loop.ts              *)
(* commitFileSet).                                                         *)
THEOREM AllOrNothing == Spec => []CommittedOrUntouched
<1>1. CommitInv /\ [Next]_vars => CommitInv'
  BY RecordStays, TargetStep DEF CommitInv
<1> QED
  BY CommitInit, <1>1, StageTells, PTL DEF Spec

-----------------------------------------------------------------------------
LEMMA SequenceOfItsOwn ==
  ASSUME NEW S, NEW seq \in Seq(S) PROVE IsSequence(seq)
<1>1. Len(seq) \in Nat /\ seq \in [1..Len(seq) -> S]
  OBVIOUS
<1>2. seq \in [1..Len(seq) -> Docs(seq)]
  BY <1>1 DEF Docs
<1>3. \E n \in Nat : seq \in [1..n -> Docs(seq)]
  BY <1>1, <1>2
<1> QED
  BY <1>3, SeqDef DEF IsSequence

LEMMA DocsOfAppend ==
  ASSUME NEW seq, IsSequence(seq), NEW d PROVE IsSequence(Append(seq, d))
<1>1. seq \in Seq(Docs(seq) \cup {d})
  BY SMT DEF IsSequence
<1>2. Append(seq, d) \in Seq(Docs(seq) \cup {d})
  BY <1>1
<1> QED
  BY <1>2, SequenceOfItsOwn

LEMMA ConsentInit == Init => ConsentInv
<1>1. IsSequence(<<>>)
  BY DEF IsSequence
<1> QED
  BY <1>1 DEF Init, ConsentInv, RunIsRecord, Decided, ProbesConsented, Started, NoRun, Fields, Working, Committing,
              Arguments

(* What was sent stays consented to while the record stays.                *)
LEMMA StillConsented ==
  ASSUME ProbesConsented, UNCHANGED <<args, requests>>, requests = {} \/ run'.record = run.record
  PROVE  ProbesConsented'
BY DEF ProbesConsented, Asking, keptDecisions, Docs

LEMMA ConsentStep ==
  ASSUME ConsentInv, [Next]_vars, RunIsRecord' PROVE Decided' /\ ProbesConsented'
<1> USE DEF ConsentInv, RunIsRecord, Fields
<1>0. IsSequence(<<>>)
  BY DEF IsSequence
<1>1. CASE UNCHANGED vars
  BY <1>1, StillConsented DEF vars, Decided
<1>2. CASE AuthorSaves \/ BackendChanges
  BY <1>2, StillConsented DEF AuthorSaves, BackendChanges, Decided
<1>3. CASE runInitCmd
  <2>1. args \in Arguments /\ requests = {} /\ UNCHANGED <<args, requests>>
    BY <1>3 DEF runInitCmd, Decided, world
  <2>2. ProbesConsented'
    BY <2>1, StillConsented
  <2>3. run'.pc = "emit" => IsSequence(run'.record.decisions)
    <3>1. SUFFICES ASSUME run'.pc = "emit" PROVE IsSequence(run'.record.decisions)
      OBVIOUS
    <3>2. run'.record = args.record /\ args.record # None /\ validateDecisionRecord(args.record)
      BY <1>3, <3>1 DEF runInitCmd, Over, Goes, NoRun
    <3>3. args.record \notin {None, Torn}
      BY <3>2 DEF validateDecisionRecord
    <3> QED
      BY <2>1, <3>2, <3>3, RecordAssumption DEF Arguments, IsSequence
  <2>4. run'.pc \in {"company", "emit", "over"} /\ IsSequence(run'.decisions)
    BY <1>0, <1>3 DEF runInitCmd, Over, Goes, NoRun, Decided
  <2> QED
    BY <2>1, <2>2, <2>3, <2>4 DEF Decided
<1>4. CASE GateOpens
  <2>1. args \in Arguments /\ requests = {} /\ UNCHANGED <<args, requests>>
    BY <1>4 DEF GateOpens, Decided, world
  <2>2. run'.pc \in {"gate", "over"} /\ IsSequence(run'.decisions)
    BY <1>0, <1>4 DEF GateOpens, Over, NoRun, Decided
  <2>3. run'.pc = "gate" => DOMAIN run'.record = {"company", "provider", "baseUrlEnvVar", "authEnvVar", "decisions"}
    <3>1. SUFFICES ASSUME run'.pc = "gate" PROVE DOMAIN run'.record = {"company", "provider", "baseUrlEnvVar", "authEnvVar", "decisions"}
      OBVIOUS
    <3>2. PICK word \in Words :
            run'.record = [company |-> word, provider |-> None, baseUrlEnvVar |-> None, authEnvVar |-> None, decisions |-> <<>>]
      BY <1>4, <3>1 DEF GateOpens, Over, NoRun
    <3> QED
      BY <3>2
  <2>4. ProbesConsented'
    BY <2>1, StillConsented
  <2> QED
    BY <2>1, <2>2, <2>3, <2>4 DEF Decided
<1>5. CASE AnswerCandidate
  <2>1. args \in Arguments /\ requests = {} /\ UNCHANGED <<args, requests>>
    BY <1>5 DEF AnswerCandidate, Decided, world
  <2>2. run.pc = "gate" /\ run'.pc = "gate" /\ run'.record = run.record
    BY <1>5 DEF AnswerCandidate
  <2>3. PICK d : run'.decisions = Append(run.decisions, d)
    BY <1>5 DEF AnswerCandidate
  <2> QED
    BY <2>1, <2>2, <2>3, DocsOfAppend, StillConsented DEF Decided
<1>6. CASE GateCloses
  <2>1. args \in Arguments /\ requests = {} /\ UNCHANGED <<args, requests>>
    BY <1>6 DEF GateCloses, Decided, world
  <2>2. run.pc = "gate" /\ run'.pc = "emit" /\ run'.decisions = <<>>
    BY <1>6 DEF GateCloses, Started, NoRun
  <2>3. run'.record = [run.record EXCEPT !.decisions = run.decisions]
    BY <1>6 DEF GateCloses, Started, NoRun
  <2>4. run'.record.decisions = run.decisions
    BY <2>2, <2>3 DEF Decided
  <2> QED
    BY <1>0, <2>1, <2>2, <2>4, StillConsented DEF Decided
<1>7. CASE GateGivesUp \/ InputEnds \/ Killed
  BY <1>0, <1>7, StillConsented DEF GateGivesUp, InputEnds, Killed, Over, NoRun, Decided, world
<1>8. CASE EmitFirst
  <2>1. UNCHANGED <<args, requests>> /\ run'.record = run.record /\ run.pc = "emit"
    BY <1>8 DEF EmitFirst, Over, NoRun, world
  <2>2. run'.pc \in {"staging", "commit", "over"} /\ run'.decisions \in {run.decisions, <<>>}
    BY <1>8 DEF EmitFirst, Over, NoRun
  <2> QED
    BY <1>0, <2>1, <2>2, StillConsented DEF Decided
<1>9. CASE StagingCompiles
  <2>1. UNCHANGED <<args, requests>> /\ run'.record = run.record /\ run.pc = "staging"
    BY <1>9 DEF StagingCompiles, Over, NoRun, world
  <2>2. run'.pc \in {"probe", "over"} /\ run'.decisions \in {run.decisions, <<>>}
    BY <1>9 DEF StagingCompiles, Over, NoRun
  <2>3. run'.pc = "probe" => run'.todo = run.record.decisions
    BY <1>9 DEF StagingCompiles, Over, NoRun
  <2> QED
    BY <1>0, <2>1, <2>2, <2>3, StillConsented DEF Decided, IsSequence
<1>10. CASE runProbes
  <2>1. run.pc = "probe" /\ run.todo # <<>> /\ UNCHANGED args
    BY <1>10 DEF runProbes, world
  <2>2. /\ run'.record = run.record /\ run'.pc = run.pc /\ run'.decisions = run.decisions
        /\ run'.todo = Tail(run.todo)
    BY <1>10 DEF runProbes, Probes
  <2>3. Decided'
    BY <2>1, <2>2 DEF Decided
  <2>4. Head(run.todo) \in Docs(run.record.decisions)
    BY <2>1 DEF Decided
  <2>5. CASE UNCHANGED requests
    BY <2>1, <2>2, <2>3, <2>5, StillConsented
  <2>6. CASE \E t \in Probed(Head(run.todo)) : Probes(t, Head(run.todo), body[t.connector.key])
    <3>1. PICK t \in Probed(Head(run.todo)) : Probes(t, Head(run.todo), body[t.connector.key])
      BY <2>6
    <3>2. DEFINE new == Request(t, "probe", Head(run.todo), body[t.connector.key])
    <3>3. requests' = requests \cup {new}
      BY <3>1 DEF Probes
    <3>4. Head(run.todo).keep /\ probeGate(Head(run.todo), t)
      BY <3>1 DEF Probed
    <3>5. new.decision = Head(run.todo) /\ new.method = t.connector.method
      BY DEF Request
    <3>6. /\ new.decision \in keptDecisions(run.record)
          /\ new.decision.probe /\ new.decision.effect = "read"
          /\ new.method \in FREE_METHODS \/ (Asking /\ new.decision.probeNonReadMethodConfirmed)
      BY <2>4, <3>4, <3>5 DEF probeGate, keptDecisions
    <3> HIDE DEF new
    <3>7. ProbesConsented'
      BY <2>1, <2>2, <3>3, <3>6 DEF ProbesConsented, Asking, keptDecisions, Docs
    <3> QED
      BY <2>3, <3>7
  <2> QED
    BY <1>10, <2>5, <2>6 DEF runProbes
<1>11. CASE ProbesDone
  <2>1. UNCHANGED <<args, requests>> /\ run'.record = run.record
    BY <1>11 DEF ProbesDone, Over, Goes, NoRun, world
  <2>2. run'.pc \in {"commit", "replay", "over"} /\ run'.decisions \in {run.decisions, <<>>}
    BY <1>11 DEF ProbesDone, Over, Goes, NoRun
  <2> QED
    BY <1>0, <2>1, <2>2, StillConsented DEF Decided
<1>12. CASE verifyRecorded
  <2>1. UNCHANGED args /\ run'.record = run.record /\ run'.pc = "replay" /\ run'.decisions = run.decisions
    BY <1>12 DEF verifyRecorded, Replays, world
  <2>2. PICK t : Replays(t, body[t.connector.key])
    BY <1>12 DEF verifyRecorded
  <2> DEFINE r == Request(t, "replay", None, body[t.connector.key])
  <2>3. requests' = requests \cup {r} /\ r.by = "replay"
    BY <2>2 DEF Replays, Request
  <2> HIDE DEF r
  <2>4. ProbesConsented'
    BY <2>1, <2>3 DEF ProbesConsented, Asking, keptDecisions, Docs
  <2> QED
    BY <2>1, <2>4 DEF Decided
<1>13. CASE ReplaysDone \/ CopyDone \/ ReportWritten
  <2>1. UNCHANGED <<args, requests>> /\ run'.record = run.record /\ run'.decisions = run.decisions
    BY <1>13 DEF ReplaysDone, CopyDone, ReportWritten, world
  <2>2. run'.pc \in {"commit", "report", "done"}
    BY <1>13 DEF ReplaysDone, CopyDone, ReportWritten
  <2> QED
    BY <2>1, <2>2, StillConsented DEF Decided
<1>14. CASE commitFileSet \/ CopyBreaksOff
  <2>1. UNCHANGED <<args, requests>> /\ run'.record = run.record
    BY <1>14 DEF commitFileSet, CopyBreaksOff, Over, NoRun, world
  <2>2. run'.pc \in {"copy", "over"} /\ run'.decisions \in {run.decisions, <<>>}
    BY <1>14 DEF commitFileSet, CopyBreaksOff, Over, NoRun
  <2> QED
    BY <1>0, <2>1, <2>2, StillConsented DEF Decided
<1> QED
  BY <1>1, <1>2, <1>3, <1>4, <1>5, <1>6, <1>7, <1>8, <1>9, <1>10, <1>11, <1>12, <1>13, <1>14 DEF Next

(* Every probe, in every run, belongs to a decision that the run's record  *)
(* keeps, that calls its capability a read and consents, and that was      *)
(* confirmed again by a person where the method is no plain read           *)
(* (probe.ts probeGate, runProbes).                                        *)
THEOREM NothingUnasked == Spec => []ProbesConsented
<1>1. CommitInv /\ ConsentInv /\ [Next]_vars => CommitInv' /\ ConsentInv'
  BY RecordStays, TargetStep, ConsentStep DEF CommitInv, ConsentInv
<1>2. ConsentInv => ProbesConsented
  BY DEF ConsentInv
<1> QED
  BY CommitInit, ConsentInit, <1>1, <1>2, PTL DEF Spec

-----------------------------------------------------------------------------
(* What is together in one directory is from one of its parts. *)
LEMMA OneOfThem ==
  ASSUME NEW sets, NEW p \in DOMAIN Together(sets)
  PROVE  \E files \in sets : p \in DOMAIN files /\ Together(sets)[p] = files[p]
<1>1. \E files \in sets : p \in DOMAIN files
  BY DEF Together
<1> QED
  BY <1>1 DEF Together

(* What a file of the emission is is told by its path: the providers', or  *)
(* one that a plan renders.                                                *)
LEMMA EmittedPart ==
  ASSUME NEW d, NEW record, NEW contracts, NEW p \in DOMAIN emit(d, record, contracts)
  PROVE  LET plans == plansOf(d, record)
             doc == emit(d, record, contracts)[p]
         IN \/ p = CapabilitiesFile /\ doc = renderCapabilitiesFile(record, plans)
            \/ \E k \in 1..Len(plans) :
                 LET id == plans[k].decision.capabilityId
                 IN \/ \E r \in Claims(plans[k]) : p = FilePath("resource", r.name) /\ doc = renderResourceFile(r)
                    \/ p = FilePath("capability", id) /\ doc = renderCapabilityFile(record, plans[k])
                    \/ p = FilePath("binding", id) /\ doc = renderBindingFile(d, record, plans[k], contracts)
                    \/ p = FilePath("fixture", id) /\ doc = RecordedFixture
<1>. DEFINE plans == plansOf(d, record)
            files == emit(d, record, contracts)
            caps == File(CapabilitiesFile, renderCapabilitiesFile(record, plans))
            all == {caps} \cup {FilesFor(d, record, plans[k], contracts) : k \in 1..Len(plans)}
<1>1. files = Together(all)
  BY DEF emit, filesOf, NoFiles
<1>. HIDE DEF files, all
<1>2. PICK part \in all : p \in DOMAIN part /\ files[p] = part[p]
  BY <1>1, OneOfThem DEF files
<1>3. CASE part = caps
  BY <1>2, <1>3 DEF File, files
<1>4. CASE part # caps
  <2>1. PICK k \in 1..Len(plans) : part = FilesFor(d, record, plans[k], contracts)
    BY <1>2, <1>4 DEF all
  <2>. DEFINE plan == plans[k]
              id == plan.decision.capabilityId
              resources == {File(FilePath("resource", r.name), renderResourceFile(r)) : r \in Claims(plan)}
              capability == File(FilePath("capability", id), renderCapabilityFile(record, plan))
              binding == File(FilePath("binding", id), renderBindingFile(d, record, plan, contracts))
              fixture == IF id \in DOMAIN contracts THEN File(FilePath("fixture", id), RecordedFixture) ELSE NoFiles
  <2>2. part = Together(resources \cup {capability, binding, fixture})
    BY <2>1 DEF FilesFor
  <2>. HIDE DEF plans, resources, capability, binding, fixture
  <2>3. PICK one \in resources \cup {capability, binding, fixture} : p \in DOMAIN one /\ part[p] = one[p]
    BY <1>2, <2>2, OneOfThem
  <2>4. ASSUME NEW path, NEW doc, one = File(path, doc) PROVE p = path /\ one[p] = doc
    BY <2>3, <2>4 DEF File
  <2>5. files[p] = one[p]
    BY <1>2, <2>3
  <2>6. CASE one \in resources
    <3>1. PICK r \in Claims(plan) : one = File(FilePath("resource", r.name), renderResourceFile(r))
      BY <2>6 DEF resources
    <3>. QED BY <2>4, <2>5, <3>1 DEF files, plans
  <2>7. CASE one = capability
    BY <2>4, <2>5, <2>7 DEF files, plans, capability
  <2>8. CASE one = binding
    BY <2>4, <2>5, <2>8 DEF files, plans, binding
  <2>9. CASE one = fixture
    <3>1. one # NoFiles
      BY <2>3 DEF NoFiles
    <3>. QED BY <2>4, <2>5, <2>9, <3>1 DEF files, plans, fixture
  <2>. QED BY <2>3, <2>6, <2>7, <2>8, <2>9
<1>. QED BY <1>3, <1>4

(* What is emitted of a capability is what its plan renders, under the     *)
(* path of its id.                                                         *)
LEMMA EmittedFile ==
  ASSUME NEW d, NEW record, NEW contracts, NEW p \in DOMAIN emit(d, record, contracts),
         p[1] \in {"capability", "binding"}
  PROVE  LET plans == plansOf(d, record)
             doc == emit(d, record, contracts)[p]
         IN \E k \in 1..Len(plans) :
              \/ /\ p = FilePath("capability", plans[k].decision.capabilityId)
                 /\ doc = renderCapabilityFile(record, plans[k])
              \/ /\ p = FilePath("binding", plans[k].decision.capabilityId)
                 /\ doc = renderBindingFile(d, record, plans[k], contracts)
BY EmittedPart DEF FilePath, CapabilitiesFile

(* A binding says that it has a contract only when it was given one.       *)
LEMMA EmittedContract ==
  ASSUME NEW d, NEW record, NEW contracts, NEW b \in Bindings(emit(d, record, contracts)), b.contract # None
  PROVE  b.capabilityId \in DOMAIN contracts /\ b.contract.fingerprint = contracts[b.capabilityId].fingerprint
<1> DEFINE files == emit(d, record, contracts)
           plans == plansOf(d, record)
<1>1. PICK p \in DOMAIN files : p[1] = "binding" /\ b = files[p]
  BY DEF Bindings, FilesOf
<1>2. PICK k \in 1..Len(plans) : b = renderBindingFile(d, record, plans[k], contracts)
  <2>1. \A name : FilePath("capability", name)[1] # "binding"
    BY DEF FilePath
  <2> QED BY <1>1, <2>1, EmittedFile
<1> QED
  BY <1>2 DEF renderBindingFile

LEMMA ContractInit == Init => ContractInv
BY DEF Init, ContractInv, RunIsRecord, RecordedAreProbed, ContractsByStage, Started, NoRun, Fields, Working,
       Committing, Emitted, Bindings, FilesOf, NoFiles

LEMMA ContractStep ==
  ASSUME ContractInv, [Next]_vars, RunIsRecord' PROVE RecordedAreProbed' /\ ContractsByStage'
<1> USE DEF ContractInv, RunIsRecord, Fields
<1> DEFINE NoContracts == \A b \in Emitted : b.contract = None
<1>0. /\ run.pc \in {"start", "company", "gate", "emit", "staging", "probe", "over"} => NoContracts
      /\ NoContracts' /\ RunIsRecord' => ContractsByStage'
  BY DEF ContractsByStage, Committing
<1>1. ASSUME run'.files = NoFiles PROVE NoContracts'
  BY <1>1 DEF Emitted, Bindings, FilesOf, NoFiles
<1>2. ASSUME run'.recorded = NoFiles PROVE RecordedAreProbed'
  BY <1>2 DEF RecordedAreProbed, NoFiles
<1>3. ASSUME run'.recorded = run.recorded, requests \subseteq requests' PROVE RecordedAreProbed'
  BY <1>3 DEF RecordedAreProbed
<1>4. ASSUME NEW outcome, Over(outcome) PROVE RecordedAreProbed' /\ ContractsByStage'
  <2>1. run'.files = NoFiles /\ run'.recorded = NoFiles
    BY <1>4 DEF Over, NoRun
  <2> QED
    BY <2>1, <1>0, <1>1, <1>2
<1>5. ASSUME UNCHANGED <<run, requests>> PROVE RecordedAreProbed' /\ ContractsByStage'
  BY <1>5 DEF RecordedAreProbed, ContractsByStage, Emitted, Bindings, FilesOf
<1>6. CASE UNCHANGED vars \/ AuthorSaves \/ BackendChanges
  BY <1>5, <1>6 DEF vars, AuthorSaves, BackendChanges
<1>7. CASE runInitCmd \/ GateOpens \/ AnswerCandidate \/ GateCloses \/ GateGivesUp \/ InputEnds \/ Killed
  <2>1. CASE \E outcome : Over(outcome)
    BY <2>1, <1>4
  <2>2. CASE run'.files = NoFiles /\ run'.recorded = NoFiles
    BY <2>2, <1>0, <1>1, <1>2
  <2>3. CASE /\ run'.files = run.files /\ run'.recorded = run.recorded /\ UNCHANGED requests
             /\ run.pc \in {"start", "company", "gate"}
    <3>1. NoContracts'
      BY <1>0, <2>3 DEF Emitted, Bindings, FilesOf
    <3> QED
      BY <1>0, <1>3, <2>3, <3>1
  <2> QED
    BY <1>7, <2>1, <2>2, <2>3
       DEF runInitCmd, GateOpens, AnswerCandidate, GateCloses, GateGivesUp, InputEnds, Killed, Goes, Started, NoRun
<1>8. CASE EmitFirst
  <2>1. CASE Over("refused")
    BY <1>4, <2>1
  <2>2. CASE ~Over("refused")
    <3>1. run'.files = emit(draft, run.record, NoFiles) /\ run'.recorded = run.recorded /\ UNCHANGED requests
      BY <1>8, <2>2 DEF EmitFirst
    <3>2. NoContracts'
      BY <3>1, EmittedContract DEF Emitted, NoFiles
    <3> QED
      BY <1>0, <1>3, <3>1, <3>2
  <2> QED
    BY <2>1, <2>2
<1>9. CASE StagingCompiles
  <2>1. CASE Over("refused")
    BY <1>4, <2>1
  <2>2. CASE ~Over("refused")
    <3>1. run'.files = run.files /\ run'.recorded = run.recorded /\ UNCHANGED requests /\ run.pc = "staging"
      BY <1>9, <2>2 DEF StagingCompiles
    <3>2. NoContracts'
      BY <1>0, <3>1 DEF Emitted, Bindings, FilesOf
    <3> QED
      BY <1>0, <1>3, <3>1, <3>2
  <2> QED
    BY <2>1, <2>2
<1>10. CASE runProbes
  <2>1. run'.files = run.files /\ run.pc = "probe"
    BY <1>10 DEF runProbes, Probes
  <2>2. ContractsByStage'
    BY <1>0, <2>1 DEF Emitted, Bindings, FilesOf
  <2>3. CASE UNCHANGED requests /\ run'.recorded = run.recorded
    BY <1>3, <2>2, <2>3
  <2>4. CASE \E t \in Probed(Head(run.todo)) : Probes(t, Head(run.todo), body[t.connector.key])
    <3>1. PICK t \in Probed(Head(run.todo)) : Probes(t, Head(run.todo), body[t.connector.key])
      BY <2>4
    <3> DEFINE json == body[t.connector.key]
               new == Request(t, "probe", Head(run.todo), json)
    <3>2. requests' = requests \cup {new} /\ run'.recorded \in {run.recorded, Put(run.recorded, t.id, ContractOf(json))}
      BY <3>1 DEF Probes
    <3>3. new.by = "probe" /\ new.id = t.id /\ new.answer = json
      BY DEF Request
    <3> HIDE DEF json, new
    <3>4. ASSUME NEW id \in DOMAIN run'.recorded
          PROVE  \E r \in requests' : /\ r.by = "probe" /\ r.id = id
                                       /\ fingerprintShape(r.answer) = run'.recorded[id].fingerprint
      <4>1. CASE id \in DOMAIN run.recorded /\ run'.recorded[id] = run.recorded[id]
        BY <3>2, <4>1 DEF RecordedAreProbed
      <4>2. CASE id = t.id /\ run'.recorded[id] = ContractOf(json)
        BY <3>2, <3>3, <4>2 DEF ContractOf
      <4> QED
        BY <3>2, <4>1, <4>2 DEF Put
    <3> QED
      BY <2>2, <3>4 DEF RecordedAreProbed
  <2> QED
    BY <1>10, <2>3, <2>4 DEF runProbes
<1>11. CASE ProbesDone
  <2>1. CASE Over("refused")
    BY <1>4, <2>1
  <2>2. CASE run'.files = run.files /\ run'.recorded = run.recorded /\ UNCHANGED requests
    <3>1. NoContracts'
      BY <1>0, <1>11, <2>2 DEF ProbesDone, Emitted, Bindings, FilesOf
    <3> QED
      BY <1>0, <1>3, <2>2, <3>1
  <2>3. CASE run'.files = emit(draft, run.record, run.recorded) /\ run'.recorded = run.recorded
             /\ UNCHANGED requests /\ run'.pc = "replay"
    <3>1. ContractsByStage'
      BY <2>3, EmittedContract DEF ContractsByStage, Emitted
    <3> QED
      BY <1>3, <2>3, <3>1
  <2> QED
    BY <1>11, <2>1, <2>2, <2>3 DEF ProbesDone, Goes
<1>12. CASE verifyRecorded
  <2>1. run'.files = run.files /\ run'.recorded = run.recorded /\ requests \subseteq requests'
        /\ run.pc = "replay" /\ run'.pc = "replay"
    BY <1>12 DEF verifyRecorded, Replays
  <2> QED
    BY <1>3, <2>1 DEF ContractsByStage, Emitted, Bindings, FilesOf
<1>13. CASE ReplaysDone
  <2> DEFINE survivors == {id \in DOMAIN run.recorded : id \in DOMAIN run.verdict /\ run.verdict[id] # "red"}
             kept == [id \in survivors |-> run.recorded[id]]
  <2>1. run'.files = emit(draft, run.record, kept) /\ run'.recorded = run.recorded /\ run'.verdict = run.verdict
        /\ UNCHANGED requests /\ run'.pc = "commit"
    BY <1>13 DEF ReplaysDone
  <2>2. ASSUME NEW b \in Emitted', b.contract # None
        PROVE  b.capabilityId \in survivors /\ b.contract.fingerprint = run.recorded[b.capabilityId].fingerprint
    BY <2>1, <2>2, EmittedContract DEF Emitted
  <2>3. ContractsByStage'
    BY <2>1, <2>2 DEF ContractsByStage
  <2> QED
    BY <1>3, <2>1, <2>3
<1>14. CASE commitFileSet
  <2>1. CASE Over("refused")
    BY <1>4, <2>1
  <2>2. CASE ~Over("refused")
    <3>1. /\ run'.files = run.files /\ run'.recorded = run.recorded /\ run'.verdict = run.verdict
          /\ UNCHANGED requests /\ run.pc = "commit" /\ run'.pc = "copy"
      BY <1>14, <2>2 DEF commitFileSet
    <3> QED
      BY <1>3, <3>1 DEF ContractsByStage, Emitted, Bindings, FilesOf, Committing
  <2> QED
    BY <2>1, <2>2
<1>15. CASE CopyDone \/ ReportWritten
  <2>1. /\ run'.files = run.files /\ run'.recorded = run.recorded /\ run'.verdict = run.verdict
        /\ UNCHANGED requests /\ run.pc \in Committing /\ run'.pc \in Committing
    BY <1>15 DEF CopyDone, ReportWritten, Committing
  <2> QED
    BY <1>3, <2>1 DEF ContractsByStage, Emitted, Bindings, FilesOf, Committing
<1>16. CASE CopyBreaksOff
  BY <1>4, <1>16 DEF CopyBreaksOff
<1> QED
  BY <1>6, <1>7, <1>8, <1>9, <1>10, <1>11, <1>12, <1>13, <1>14, <1>15, <1>16 DEF Next

(* Whatever the backend answers and when: a contract that a run commits    *)
(* is the shape of an answer to one of its own probes, and was replayed    *)
(* without failing (loop.ts runInit, probe.ts runProbes, verifyRecorded).  *)
THEOREM OnlyReplayedCommitted == Spec => []CommittedAreReplayed
<1>1. CommitInv /\ ContractInv /\ [Next]_vars => CommitInv' /\ ContractInv'
  BY RecordStays, TargetStep, ContractStep DEF CommitInv, ContractInv
<1>2. ContractInv => CommittedAreReplayed
  BY DEF ContractInv, RecordedAreProbed, ContractsByStage, CommittedAreReplayed, Committed
<1> QED
  BY CommitInit, ContractInit, <1>1, <1>2, PTL DEF Spec

-----------------------------------------------------------------------------
NoneTwice(seq) == \A i, k \in 1..Len(seq) : seq[i] = seq[k] => i = k

(* A set in some order is a list of its elements, each once (the recursion *)
(* of the fold has a solution, or there were a least set without one).     *)
LEMMA OrderedSet ==
  ASSUME NEW S, IsFiniteSet(S)
  PROVE  InSomeOrder(S) \in Seq(S) /\ Docs(InSomeOrder(S)) = S /\ NoneTwice(InSomeOrder(S))
<1>. DEFINE one(s) == CHOOSE x \in s : TRUE
            Next1(f, s) == IF s = {} THEN <<>> ELSE Append(f[s \ {one(s)}], one(s))
            Stage(m, f) == f = [s \in {t \in SUBSET S : Cardinality(t) <= m} |-> Next1(f, s)]
            order == CHOOSE f : f = [s \in SUBSET S |-> Next1(f, s)]
            Without == {m \in Nat : ~\E f : Stage(m, f)}
<1>1. InSomeOrder(S) = order[S]
  BY DEF InSomeOrder, FoldSet, MapThenFoldSet
<1>2. ASSUME NEW s \in SUBSET S
      PROVE  /\ IsFiniteSet(s) /\ Cardinality(s) \in Nat
             /\ Cardinality(s) <= Cardinality(S)
             /\ Cardinality(s) = 0 <=> s = {}
             /\ s # {} => /\ one(s) \in s /\ s \ {one(s)} \in SUBSET S
                          /\ Cardinality(s \ {one(s)}) = Cardinality(s) - 1
  <2>1. IsFiniteSet(s) /\ Cardinality(s) <= Cardinality(S)
    BY FS_Subset
  <2>2. Cardinality(s) \in Nat
    BY <2>1, FS_CardinalityType
  <2>3. Cardinality(s) = 0 <=> s = {}
    BY <2>1, FS_EmptySet
  <2>4. s # {} => one(s) \in s
    OBVIOUS
  <2>5. ASSUME s # {} PROVE Cardinality(s \ {one(s)}) = Cardinality(s) - 1
    BY <2>1, <2>4, <2>5, FS_RemoveElement
  <2>. QED BY <2>1, <2>2, <2>3, <2>4, <2>5
<1>. HIDE DEF one
<1>9. \A s \in SUBSET S : Cardinality(s) \in Nat
  BY <1>2
<1>3. Without = {}
  <2>1. SUFFICES ASSUME Without # {} PROVE FALSE
    OBVIOUS
  <2>2. PICK m \in Without : \A k \in Without : m <= k
    BY <2>1, LeastOf
  <2>3. \E f : \A s \in SUBSET S : Cardinality(s) <= m - 1 => f[s] = Next1(f, s)
    <3>1. CASE m = 0
      <4>1. ASSUME NEW s \in SUBSET S, Cardinality(s) <= m - 1 PROVE FALSE
        BY <1>9, <3>1, <4>1
      <4>. QED BY <4>1
    <3>2. CASE m # 0
      <4>1. m - 1 \in Nat /\ m - 1 \notin Without
        <5>. HIDE DEF Stage
        <5>. QED BY <2>2, <3>2
      <4>2. PICK f : Stage(m - 1, f)
        BY <4>1
      <4>. QED BY <4>2
    <3>. QED BY <3>1, <3>2
  <2>4. PICK f : \A s \in SUBSET S : Cardinality(s) <= m - 1 => f[s] = Next1(f, s)
    BY <2>3
  <2>. DEFINE g == [s \in {t \in SUBSET S : Cardinality(t) <= m} |-> Next1(f, s)]
  <2>5. ASSUME NEW s \in SUBSET S, Cardinality(s) <= m, s # {}
        PROVE  f[s \ {one(s)}] = g[s \ {one(s)}]
    <3>. DEFINE t == s \ {one(s)}
    <3>1. t \in SUBSET S /\ Cardinality(t) <= m - 1 /\ Cardinality(t) <= m
      BY <1>2, <2>2, <2>5
    <3>2. f[t] = Next1(f, t) /\ g[t] = Next1(f, t)
      BY <2>4, <3>1
    <3>. QED BY <3>2
  <2>6. Stage(m, g)
    <3>. DEFINE h == [s \in {t \in SUBSET S : Cardinality(t) <= m} |-> Next1(g, s)]
    <3>1. ASSUME NEW s \in SUBSET S, Cardinality(s) <= m PROVE g[s] = Next1(g, s)
      <4>1. g[s] = Next1(f, s)
        BY <3>1
      <4>2. CASE s = {}
        BY <4>1, <4>2
      <4>3. CASE s # {}
        <5>. HIDE DEF g
        <5>. QED BY <2>5, <3>1, <4>1, <4>3
      <4>. QED BY <4>2, <4>3
    <3>2. g = h
      BY <3>1
    <3>. QED BY <3>2
  <2>. QED BY <2>2, <2>6
<1>4. \E f : f = [s \in SUBSET S |-> Next1(f, s)]
  <2>1. Cardinality(S) \in Nat /\ {t \in SUBSET S : Cardinality(t) <= Cardinality(S)} = SUBSET S
    BY <1>2
  <2>2. PICK f : Stage(Cardinality(S), f)
    BY <1>3, <2>1
  <2>3. f = [s \in SUBSET S |-> Next1(f, s)]
    BY <2>1, <2>2
  <2>. QED BY <2>3
<1>5. order = [s \in SUBSET S |-> Next1(order, s)]
  BY <1>4
<1>. HIDE DEF order
<1>6. \A s \in SUBSET S : order[s] = Next1(order, s)
  BY <1>5
<1>. DEFINE Good(s) == order[s] \in Seq(S) /\ Docs(order[s]) = s /\ NoneTwice(order[s])
            Bad == {Cardinality(s) : s \in {t \in SUBSET S : ~Good(t)}}
<1>7. Bad = {}
  <2>1. SUFFICES ASSUME Bad # {} PROVE FALSE
    OBVIOUS
  <2>2. Bad \in SUBSET Nat
    <3>. HIDE DEF Good
    <3>. QED BY <1>9
  <2>3. PICK m \in Bad : \A k \in Bad : m <= k
    BY <2>1, <2>2, LeastOf
  <2>4. PICK s \in SUBSET S : ~Good(s) /\ m = Cardinality(s)
    BY <2>3
  <2>5. CASE s = {}
    <3>1. order[s] = <<>>
      BY <1>6, <2>5
    <3>. QED BY <2>4, <2>5, <3>1 DEF Docs, NoneTwice
  <2>6. CASE s # {}
    <3>. DEFINE t == s \ {one(s)}
    <3>1. /\ one(s) \in s /\ t \in SUBSET S /\ Cardinality(t) = m - 1 /\ m \in Nat
      BY <1>2, <2>2, <2>4, <2>6
    <3>2. Good(t)
      <4>1. m - 1 \notin Bad
        BY <2>3, <3>1
      <4>. HIDE DEF Good, t
      <4>. QED BY <3>1, <4>1
    <3>3. order[s] = Append(order[t], one(s))
      BY <1>6, <2>6
    <3>. DEFINE q == order[t]
    <3>. HIDE DEF q
    <3>4. q \in Seq(S) /\ {q[i] : i \in 1..Len(q)} = t /\ one(s) \in S /\ NoneTwice(q)
      BY <3>1, <3>2 DEF Docs, q
    <3>5. Append(q, one(s)) \in Seq(S) /\ Docs(Append(q, one(s))) = s /\ NoneTwice(Append(q, one(s)))
      <4>1. /\ Len(q) \in Nat /\ Len(Append(q, one(s))) = Len(q) + 1
            /\ \A i \in 1..Len(q) : Append(q, one(s))[i] = q[i]
            /\ Append(q, one(s))[Len(q) + 1] = one(s)
            /\ Append(q, one(s)) \in Seq(S)
        BY <3>4
      <4>2. 1..(Len(q) + 1) = 1..Len(q) \cup {Len(q) + 1}
        BY <4>1
      <4>3. one(s) \notin {q[i] : i \in 1..Len(q)}
        BY <3>4
      <4>4. NoneTwice(Append(q, one(s)))
        BY <3>4, <4>1, <4>2, <4>3 DEF NoneTwice
      <4>. QED BY <3>1, <3>4, <4>1, <4>2, <4>4 DEF Docs
    <3>. QED BY <2>4, <3>3, <3>5 DEF q
  <2>. QED BY <2>5, <2>6
<1>8. Good(S)
  BY <1>7
<1>. QED BY <1>1, <1>8

-----------------------------------------------------------------------------
(* The plans of a record, decision by decision (emit.ts).                  *)
PlansUpTo(d, record) ==
  CHOOSE f : f = [n \in 0..Len(record.decisions) |->
                    IF n = 0 THEN <<>> ELSE Consider(d, f[n - 1], record.decisions[n])]

(* They are settled one after the other: none before the first decision,   *)
(* then what each decision makes of those before it.                       *)
LEMMA PlansByStep ==
  ASSUME NEW d, NEW record, Len(record.decisions) \in Nat
  PROVE  LET upto == PlansUpTo(d, record)
         IN /\ upto[0] = <<>>
            /\ \A n \in 1..Len(record.decisions) : upto[n] = Consider(d, upto[n - 1], record.decisions[n])
            /\ plansOf(d, record) = upto[Len(record.decisions)]
<1>. DEFINE Next1(f, n) == IF n = 0 THEN <<>> ELSE Consider(d, f[n - 1], record.decisions[n])
            Stage(m, f) == f = [n \in 0..m |-> Next1(f, n)]
            upto == PlansUpTo(d, record)
            Without == {m \in Nat : ~\E f : Stage(m, f)}
<1>1. Without = {}
  <2>1. SUFFICES ASSUME Without # {} PROVE FALSE
    OBVIOUS
  <2>2. PICK m \in Without : \A k \in Without : m <= k
    BY <2>1, LeastOf
  <2>3. CASE m = 0
    <3>. DEFINE g == [n \in 0..0 |-> <<>>]
    <3>1. Stage(0, g)
      OBVIOUS
    <3>. QED BY <2>2, <2>3, <3>1
  <2>4. CASE m # 0
    <3>1. m - 1 \in Nat /\ m - 1 \notin Without
      BY <2>2, <2>4
    <3>2. PICK f : Stage(m - 1, f)
      BY <3>1
    <3>. DEFINE g == [n \in 0..m |-> Next1(f, n)]
    <3>3. ASSUME NEW n \in 0..(m - 1) PROVE f[n] = g[n]
      BY <3>1, <3>2
    <3>4. ASSUME NEW n \in 0..m, n # 0 PROVE f[n - 1] = g[n - 1]
      <4>1. n - 1 \in 0..(m - 1)
        BY <3>1, <3>4
      <4>. HIDE DEF g
      <4>. QED BY <3>3, <4>1
    <3>5. Stage(m, g)
      <4>. DEFINE h == [n \in 0..m |-> Next1(g, n)]
      <4>1. \A n \in 0..m : g[n] = h[n]
        BY <3>4
      <4>2. g = h
        BY <4>1
      <4>. QED BY <4>2
    <3>. QED BY <2>2, <3>5
  <2>. QED BY <2>3, <2>4
<1>2. \E f : Stage(Len(record.decisions), f)
  BY <1>1
<1>3. Stage(Len(record.decisions), upto)
  BY <1>2 DEF PlansUpTo
<1>4. plansOf(d, record) = upto[Len(record.decisions)]
  BY DEF plansOf, PlansUpTo
<1>. HIDE DEF upto
<1>5. upto[0] = <<>> /\ \A n \in 1..Len(record.decisions) : upto[n] = Next1(upto, n)
  BY <1>3
<1>6. \A n \in 1..Len(record.decisions) : upto[n] = Consider(d, upto[n - 1], record.decisions[n])
  BY <1>5
<1>. QED BY <1>4, <1>5, <1>6 DEF upto

(* The plans of a record are of decisions it keeps, each of the operation  *)
(* that its decision names, and no two of one id.                          *)
Agree(a, b) == \A r \in Claims(a), s \in Claims(b) : r.name = s.name => sameFields(r, s)

PlanList(d, record, plans) ==
  /\ IsSequence(plans)
  /\ \A k \in 1..Len(plans) : /\ plans[k].decision \in keptDecisions(record)
                              /\ legalCapabilityId(plans[k].decision.capabilityId)
                              /\ plans[k].operation \in OperationsOf(d, plans[k].decision.operation)
                              /\ plans[k] = planCapability(plans[k].operation, plans[k].decision)
                              /\ plans[k] # None
  /\ \A j, k \in 1..Len(plans) : plans[j].decision.capabilityId = plans[k].decision.capabilityId => j = k
  /\ \A j, k \in 1..Len(plans) : j # k => Agree(plans[j], plans[k])

(* Where a plan has a resource, it reads its fields at one of the places   *)
(* that the census found (d9.ts selectLocus, emit.ts planCapability).      *)
Mapped(plan, locus, name) ==
  LET rowErrors == IF locus.kind = "collection" THEN ListAt(plan.operation.response, locus).rowErrors ELSE None
  IN /\ locus \in locusCandidates(plan.operation.response)
     /\ locusLeaves(locus.locus) # {}
     /\ name # None /\ name = ResourceName(locus, plan.decision)
     /\ plan.resource = [name |-> name, fields |-> {planResourceField(p, p.name) : p \in locusLeaves(locus.locus)}]
     /\ plan.at = locus.at
     /\ plan.onError = IF rowErrors = None THEN None ELSE planRowErrors(rowErrors, name)
     /\ rowErrors # None => RowErrorsReadable(rowErrors)

(* A plan, degraded or not, is of the operation and the decision that it   *)
(* was made of.                                                            *)
LEMMA PlanMaps ==
  ASSUME NEW operation, NEW decision, planCapability(operation, decision) # None
  PROVE  LET plan == planCapability(operation, decision)
         IN /\ plan.operation = operation /\ plan.decision = decision
            /\ \/ plan.resource = None /\ plan.at = None /\ plan.onError = None
               \/ \E locus, name : Mapped(plan, locus, name)
<1>. DEFINE plan == planCapability(operation, decision)
            candidates == locusCandidates(operation.response)
            locus == selectLocus(candidates, decision.responseLocus)
            name == ResourceName(locus, decision)
            rowErrors == IF locus.kind = "collection" THEN ListAt(operation.response, locus).rowErrors ELSE None
<1>1. plan = PlanAt(operation, decision, locus)
  BY DEF planCapability
<1>2. locus # None
  BY <1>1 DEF PlanAt
<1>3. locus # NoLocus => locus \in candidates
  <2>1. ASSUME candidates # {} PROVE (CHOOSE c \in candidates : TRUE) \in candidates
    BY <2>1
  <2>2. ASSUME NEW at, \E c \in candidates : c.at = at PROVE (CHOOSE c \in candidates : c.at = at) \in candidates
    BY <2>2
  <2>. HIDE DEF candidates
  <2>. QED BY <1>2, <2>1, <2>2 DEF selectLocus
<1>4. \/ plan = Degraded(operation, decision)
      \/ /\ locus # NoLocus /\ locusLeaves(locus.locus) # {}
         /\ plan = PlanNamed(operation, decision, locus, name, rowErrors)
  <2>. HIDE DEF locus
  <2>. QED BY <1>1, <1>2 DEF PlanAt
<1>. HIDE DEF locus, candidates
<1>5. CASE plan = Degraded(operation, decision)
  BY <1>5 DEF Degraded
<1>6. CASE /\ locus # NoLocus /\ locusLeaves(locus.locus) # {}
           /\ plan = PlanNamed(operation, decision, locus, name, rowErrors)
  <2>. DEFINE resource == [name |-> name, fields |-> {planResourceField(p, p.name) : p \in locusLeaves(locus.locus)}]
              onError == IF rowErrors = None THEN None ELSE planRowErrors(rowErrors, name)
  <2>1. /\ name # None /\ (rowErrors # None => RowErrorsReadable(rowErrors))
        /\ plan = [Degraded(operation, decision) EXCEPT !.resource = resource, !.at = locus.at, !.onError = onError]
    <3>. HIDE DEF name, rowErrors
    <3>. QED BY <1>6 DEF PlanNamed
  <2>. HIDE DEF plan, resource, onError
  <2>2. /\ plan.operation = operation /\ plan.decision = decision
        /\ plan.resource = resource /\ plan.at = locus.at /\ plan.onError = onError
    BY <2>1 DEF Degraded
  <2>. HIDE DEF name, rowErrors
  <2>3. Mapped(plan, locus, name)
    BY <1>3, <1>6, <2>1, <2>2 DEF Mapped, candidates, rowErrors, resource, onError, name
  <2>. QED BY <2>2, <2>3 DEF plan
<1>. QED BY <1>4, <1>5, <1>6

(* One more decision keeps that: its id is claimed once, by the first plan *)
(* that takes it.                                                          *)
LEMMA Considered ==
  ASSUME NEW d, NEW record, NEW plans, PlanList(d, record, plans), NEW decision \in Docs(record.decisions)
  PROVE  PlanList(d, record, Consider(d, plans, decision))
<1>. DEFINE operation == CHOOSE op \in OperationsOf(d, decision.operation) : TRUE
            plan == planCapability(operation, decision)
<1>1. CASE Consider(d, plans, decision) = plans
  BY <1>1
<1>2. CASE Consider(d, plans, decision) # plans
  <2>1. /\ decision.keep /\ OperationsOf(d, decision.operation) # {}
        /\ legalCapabilityId(decision.capabilityId)
        /\ ~Claimed(plans, decision.capabilityId)
        /\ Consider(d, plans, decision) = Added(plans, plan)
    BY <1>2 DEF Consider
  <2>2. plan # None /\ Consider(d, plans, decision) = Append(plans, plan) /\ ~ConflictsWith(plan, plans)
    BY <1>2, <2>1 DEF Added
  <2>3. operation \in OperationsOf(d, decision.operation)
    BY <2>1
  <2>. HIDE DEF operation
  <2>4. plan.operation = operation /\ plan.decision = decision /\ plan = planCapability(operation, decision)
    BY <2>2, PlanMaps
  <2>. HIDE DEF plan
  <2>5. ASSUME NEW k \in 1..Len(plans) PROVE Agree(plan, plans[k]) /\ Agree(plans[k], plan)
    BY <2>2 DEF ConflictsWith, Agree, sameFields
  <2>. DEFINE n == Len(plans)
              new == Append(plans, plan)
  <2>6. /\ n \in Nat /\ Len(new) = n + 1
        /\ \A k \in 1..n : new[k] = plans[k]
        /\ new[n + 1] = plan
    <3>1. plans \in Seq(Docs(plans))
      BY DEF PlanList, IsSequence
    <3>. QED BY <3>1
  <2>7. IsSequence(new)
    BY DocsOfAppend DEF PlanList
  <2>. HIDE DEF new
  <2>8. ASSUME NEW k \in 1..Len(new)
        PROVE  /\ new[k].decision \in keptDecisions(record)
               /\ legalCapabilityId(new[k].decision.capabilityId)
               /\ new[k].operation \in OperationsOf(d, new[k].decision.operation)
               /\ new[k] = planCapability(new[k].operation, new[k].decision)
               /\ new[k] # None
               /\ k # n + 1 => k \in 1..n /\ new[k].decision.capabilityId # decision.capabilityId
    <3>1. CASE k = n + 1
      BY <2>1, <2>2, <2>3, <2>4, <2>6, <3>1 DEF keptDecisions
    <3>2. CASE k # n + 1
      <4>1. k \in 1..n
        BY <2>6, <3>2
      <4>. QED BY <2>1, <2>6, <3>2, <4>1 DEF PlanList, Claimed
    <3>. QED BY <3>1, <3>2
  <2>9. ASSUME NEW j \in 1..Len(new), NEW k \in 1..Len(new),
               new[j].decision.capabilityId = new[k].decision.capabilityId
        PROVE  j = k
    BY <2>4, <2>6, <2>8, <2>9 DEF PlanList
  <2>10. ASSUME NEW j \in 1..Len(new), NEW k \in 1..Len(new), j # k
         PROVE  Agree(new[j], new[k])
    BY <2>5, <2>6, <2>8, <2>10 DEF PlanList
  <2>11. PlanList(d, record, new)
    BY <2>7, <2>8, <2>9, <2>10 DEF PlanList
  <2>. QED BY <2>2, <2>11 DEF new
<1>. QED BY <1>1, <1>2

(* So do all of them: the least prefix that broke it would follow one that *)
(* did not.                                                                *)
LEMMA PlansAreKept ==
  ASSUME NEW d, NEW record, IsSequence(record.decisions)
  PROVE  PlanList(d, record, plansOf(d, record))
<1>. DEFINE n == Len(record.decisions)
            upto == PlansUpTo(d, record)
            Wrong == {m \in 0..n : ~PlanList(d, record, upto[m])}
<1>1. n \in Nat
  BY DEF IsSequence
<1>2. /\ upto[0] = <<>>
      /\ \A m \in 1..n : upto[m] = Consider(d, upto[m - 1], record.decisions[m])
      /\ plansOf(d, record) = upto[n]
  BY <1>1, PlansByStep
<1>. HIDE DEF upto
<1>3. PlanList(d, record, <<>>)
  BY DEF PlanList, IsSequence
<1>4. Wrong = {}
  <2>1. SUFFICES ASSUME Wrong # {} PROVE FALSE
    OBVIOUS
  <2>. DEFINE Good(m) == PlanList(d, record, upto[m])
  <2>2. Wrong = {m \in 0..n : ~Good(m)}
    OBVIOUS
  <2>. HIDE DEF Good
  <2>3. Wrong \in SUBSET Nat
    BY <1>1, <2>2
  <2>4. PICK m \in Wrong : \A k \in Wrong : m <= k
    BY <2>1, <2>3, LeastOf
  <2>5. m # 0
    BY <1>2, <1>3, <2>4 DEF Good
  <2>6. m \in 1..n /\ m - 1 \in 0..n /\ m - 1 \notin Wrong
    BY <1>1, <2>2, <2>4, <2>5
  <2>7. record.decisions[m] \in Docs(record.decisions)
    BY <2>6 DEF Docs
  <2>8. PlanList(d, record, upto[m - 1])
    BY <2>6
  <2>9. PlanList(d, record, upto[m])
    BY <1>2, <2>6, <2>7, <2>8, Considered
  <2>. QED BY <2>4, <2>9
<1>. QED BY <1>1, <1>2, <1>4

(* Where anything is emitted, each plan has all its files. *)
LEMMA PlansHaveFiles ==
  ASSUME NEW d, NEW record, NEW contracts, emit(d, record, contracts) # NoFiles
  PROVE  LET plans == plansOf(d, record)
         IN /\ plans # <<>>
            /\ CapabilitiesFile \in DOMAIN emit(d, record, contracts)
            /\ \A k \in 1..Len(plans) :
                 LET id == plans[k].decision.capabilityId
                 IN /\ {FilePath("capability", id), FilePath("binding", id)} \subseteq DOMAIN emit(d, record, contracts)
                    /\ \A r \in Claims(plans[k]) : FilePath("resource", r.name) \in DOMAIN emit(d, record, contracts)
<1>. DEFINE plans == plansOf(d, record)
            caps == File(CapabilitiesFile, renderCapabilitiesFile(record, plans))
            all == {caps} \cup {FilesFor(d, record, plans[k], contracts) : k \in 1..Len(plans)}
<1>1. emit(d, record, contracts) = Together(all) /\ plans # <<>>
  BY DEF emit, filesOf
<1>2. ASSUME NEW part \in all, NEW p \in DOMAIN part PROVE p \in DOMAIN emit(d, record, contracts)
  <2>. HIDE DEF all
  <2>. QED BY <1>1 DEF Together
<1>3. caps \in all /\ CapabilitiesFile \in DOMAIN caps
  BY DEF File
<1>4. ASSUME NEW k \in 1..Len(plans)
      PROVE  LET id == plans[k].decision.capabilityId
             IN /\ {FilePath("capability", id), FilePath("binding", id)} \subseteq DOMAIN emit(d, record, contracts)
                /\ \A r \in Claims(plans[k]) : FilePath("resource", r.name) \in DOMAIN emit(d, record, contracts)
  <2>. DEFINE plan == plans[k]
              id == plan.decision.capabilityId
              part == FilesFor(d, record, plan, contracts)
              resources == {File(FilePath("resource", r.name), renderResourceFile(r)) : r \in Claims(plan)}
              capability == File(FilePath("capability", id), renderCapabilityFile(record, plan))
              binding == File(FilePath("binding", id), renderBindingFile(d, record, plan, contracts))
              fixture == IF id \in DOMAIN contracts THEN File(FilePath("fixture", id), RecordedFixture) ELSE NoFiles
              some == resources \cup {capability, binding, fixture}
  <2>1. part = Together(some)
    BY DEF FilesFor
  <2>2. part \in all
    OBVIOUS
  <2>3. /\ capability \in some /\ FilePath("capability", id) \in DOMAIN capability
        /\ binding \in some /\ FilePath("binding", id) \in DOMAIN binding
    BY DEF File
  <2>4. \A r \in Claims(plan) : LET f == File(FilePath("resource", r.name), renderResourceFile(r))
                                IN f \in some /\ FilePath("resource", r.name) \in DOMAIN f
    BY DEF File
  <2>5. ASSUME NEW one \in some, NEW p \in DOMAIN one PROVE p \in DOMAIN emit(d, record, contracts)
    <3>. HIDE DEF some, part, all
    <3>1. p \in DOMAIN part
      BY <2>1, <2>5 DEF Together
    <3>. QED BY <1>2, <2>2, <3>1
  <2>. HIDE DEF some, capability, binding
  <2>. QED BY <2>3, <2>4, <2>5
<1>. HIDE DEF all, caps
<1>. QED BY <1>1, <1>2, <1>3, <1>4

(* Each plan has its binding, where anything is emitted. *)
LEMMA PlansAreBound ==
  ASSUME NEW d, NEW record, NEW contracts, emit(d, record, contracts) # NoFiles,
         NEW k \in 1..Len(plansOf(d, record))
  PROVE  FilePath("binding", plansOf(d, record)[k].decision.capabilityId) \in DOMAIN emit(d, record, contracts)
BY PlansHaveFiles

(* What is emitted are finitely many files: five paths for each plan at    *)
(* most, and the company's.                                                *)
LEMMA EmittedIsFinite ==
  ASSUME NEW d, NEW record, NEW contracts, Len(plansOf(d, record)) \in Nat
  PROVE  IsFiniteSet(DOMAIN emit(d, record, contracts))
<1>. DEFINE plans == plansOf(d, record)
            n == Len(plans)
            PathsOf(plan) ==
              LET id == plan.decision.capabilityId
              IN {FilePath("resource", plan.resource.name), FilePath("resource", plan.onError.resource.name),
                  FilePath("capability", id), FilePath("binding", id), FilePath("fixture", id)}
            paths == [k \in 1..n |-> PathsOf(plans[k])]
            each == {paths[k] : k \in 1..n}
<1>1. ASSUME NEW plan, NEW p \in DOMAIN FilesFor(d, record, plan, contracts) PROVE p \in PathsOf(plan)
  <2>. DEFINE id == plan.decision.capabilityId
              resources == {File(FilePath("resource", r.name), renderResourceFile(r)) : r \in Claims(plan)}
              capability == File(FilePath("capability", id), renderCapabilityFile(record, plan))
              binding == File(FilePath("binding", id), renderBindingFile(d, record, plan, contracts))
              fixture == IF id \in DOMAIN contracts THEN File(FilePath("fixture", id), RecordedFixture) ELSE NoFiles
  <2>1. FilesFor(d, record, plan, contracts) = Together(resources \cup {capability, binding, fixture})
    BY DEF FilesFor
  <2>. HIDE DEF resources, capability, binding, fixture
  <2>2. PICK one \in resources \cup {capability, binding, fixture} : p \in DOMAIN one
    BY <1>1, <2>1, OneOfThem
  <2>3. ASSUME NEW kind, NEW name, NEW doc, one = File(FilePath(kind, name), doc) PROVE p = FilePath(kind, name)
    BY <2>2, <2>3 DEF File
  <2>4. CASE one \in resources
    <3>1. PICK r \in Claims(plan) : one = File(FilePath("resource", r.name), renderResourceFile(r))
      BY <2>4 DEF resources
    <3>2. p = FilePath("resource", r.name)
      BY <2>3, <3>1
    <3>3. r = plan.resource \/ r = plan.onError.resource
      BY DEF Claims
    <3>. QED BY <3>2, <3>3
  <2>5. CASE one = capability
    BY <2>3, <2>5 DEF capability
  <2>6. CASE one = binding
    BY <2>3, <2>6 DEF binding
  <2>7. CASE one = fixture
    <3>1. one # NoFiles
      BY <2>2 DEF NoFiles
    <3>. QED BY <2>3, <2>7, <3>1 DEF fixture
  <2>. QED BY <2>2, <2>4, <2>5, <2>6, <2>7
<1>2. ASSUME NEW plan PROVE IsFiniteSet(PathsOf(plan))
  <2>1. ASSUME NEW a, NEW b, NEW c, NEW e, NEW f PROVE IsFiniteSet({a, b, c, e, f})
    <3>1. IsFiniteSet({a})
      BY FS_Singleton
    <3>2. IsFiniteSet({a} \cup {b})
      BY <3>1, FS_AddElement
    <3>3. IsFiniteSet(({a} \cup {b}) \cup {c})
      BY <3>2, FS_AddElement
    <3>4. IsFiniteSet((({a} \cup {b}) \cup {c}) \cup {e})
      BY <3>3, FS_AddElement
    <3>5. IsFiniteSet(((({a} \cup {b}) \cup {c}) \cup {e}) \cup {f})
      BY <3>4, FS_AddElement
    <3>6. ((({a} \cup {b}) \cup {c}) \cup {e}) \cup {f} = {a, b, c, e, f}
      OBVIOUS
    <3>. QED BY <3>5, <3>6
  <2>. QED BY <2>1
<1>. HIDE DEF PathsOf
<1>3. IsFiniteSet(1..n)
  <2>1. 1 \in Int /\ n \in Int
    OBVIOUS
  <2>. QED BY <2>1, FS_Interval, ZenonT(30)
<1>4. IsFiniteSet(each)
  <2>. HIDE DEF paths
  <2>. QED BY <1>3, ImageIsFinite
<1>5. IsFiniteSet(UNION each)
  BY <1>2, <1>4, FS_UNION
<1>. DEFINE files == emit(d, record, contracts)
            all == {File(CapabilitiesFile, renderCapabilitiesFile(record, plans))}
                   \cup {FilesFor(d, record, plans[k], contracts) : k \in 1..n}
            some == UNION each
<1>6. IsFiniteSet(some \cup {CapabilitiesFile})
  <2>. HIDE DEF some
  <2>. QED BY <1>5, FS_AddElement DEF some
<1>7. ASSUME NEW p \in DOMAIN files PROVE p \in some \cup {CapabilitiesFile}
  <2>1. files = Together(all)
    BY <1>7 DEF emit, filesOf, NoFiles
  <2>. HIDE DEF files, all
  <2>2. PICK part \in all : p \in DOMAIN part
    BY <1>7, <2>1, OneOfThem
  <2>3. CASE part = File(CapabilitiesFile, renderCapabilitiesFile(record, plans))
    BY <2>2, <2>3 DEF File
  <2>4. CASE part # File(CapabilitiesFile, renderCapabilitiesFile(record, plans))
    <3>1. PICK k \in 1..n : part = FilesFor(d, record, plans[k], contracts)
      BY <2>2, <2>4 DEF all
    <3>2. p \in PathsOf(plans[k])
      BY <1>1, <2>2, <3>1
    <3>. QED BY <3>2
  <2>. QED BY <2>3, <2>4
<1>8. DOMAIN files \subseteq some \cup {CapabilitiesFile}
  BY <1>7
<1>. HIDE DEF some
<1>. QED BY <1>6, <1>8, FS_Subset

(* The files of a kind, as documents in some order: each is of a path of   *)
(* its own.                                                                *)
LEMMA DocumentsOf ==
  ASSUME NEW files, IsFiniteSet(DOMAIN files), NEW kind
  PROVE  /\ IsList(DocsOf(files, kind))
         /\ Docs(DocsOf(files, kind)) = {files[p] : p \in FilesOf(files, kind)}
         /\ \A i, k \in 1..Len(DocsOf(files, kind)) : i # k =>
              \E p, q \in FilesOf(files, kind) :
                p # q /\ DocsOf(files, kind)[i] = files[p] /\ DocsOf(files, kind)[k] = files[q]
<1>. DEFINE own == Restrict(files, FilesOf(files, kind))
            paths == InSomeOrder(DOMAIN own)
<1>1. DOMAIN own = FilesOf(files, kind) /\ \A p \in FilesOf(files, kind) : own[p] = files[p]
  BY DEF Restrict
<1>2. IsFiniteSet(DOMAIN own)
  BY <1>1, FS_Subset DEF FilesOf
<1>3. paths \in Seq(DOMAIN own) /\ Docs(paths) = DOMAIN own /\ NoneTwice(paths)
  BY <1>2, OrderedSet
<1>4. DocsOf(files, kind) = [i \in 1..Len(paths) |-> own[paths[i]]]
  BY DEF DocsOf
<1>. HIDE DEF own, paths
<1>5. Len(paths) \in Nat /\ Len(DocsOf(files, kind)) = Len(paths)
  BY <1>3, <1>4, ListLength
<1>6. IsList(DocsOf(files, kind))
  BY <1>4, <1>5 DEF IsList, IsRecord
<1>7. Docs(DocsOf(files, kind)) = {own[p] : p \in Docs(paths)}
  BY <1>4, <1>5 DEF Docs
<1>8. ASSUME NEW i \in 1..Len(paths), NEW k \in 1..Len(paths), i # k
      PROVE  /\ paths[i] # paths[k] /\ {paths[i], paths[k]} \subseteq FilesOf(files, kind)
             /\ own[paths[i]] = files[paths[i]] /\ own[paths[k]] = files[paths[k]]
  BY <1>1, <1>3, <1>8 DEF NoneTwice, Docs
<1>. QED BY <1>1, <1>3, <1>4, <1>5, <1>6, <1>7, <1>8

(* What is loaded of what was emitted, where it compiles: the documents of *)
(* each kind that were emitted.                                            *)
LEMMA LoadedFiles ==
  ASSUME NEW files, IsFiniteSet(DOMAIN files), compileManifest(files), NEW kind \in {"capability", "binding"}
  PROVE  /\ IsList(load(toDisk(files))[kind])
         /\ Docs(load(toDisk(files))[kind]) = {files[p] : p \in FilesOf(files, kind)}
<1>. DEFINE docs == DocsOf(files, kind)
<1>1. IsList(docs) /\ Docs(docs) = {files[p] : p \in FilesOf(files, kind)}
  BY DocumentsOf
<1>2. toDisk(files)[kind] = docs
  BY DEF toDisk
<1>. HIDE DEF docs
<1>3. \A i \in 1..Len(docs) : docs[i] # Torn
  BY <1>2 DEF compileManifest, Accepted, load
<1>4. Loaded(docs) = docs
  BY <1>1, <1>3, LoadedWhole
<1>5. load(toDisk(files))[kind] = Loaded(toDisk(files)[kind])
  BY DEF load
<1>. QED BY <1>1, <1>2, <1>4, <1>5

(* A tool that the compiler makes of what was emitted is of one plan: it   *)
(* has its id, asks its operation, and its contract is one that was given. *)
LEMMA EmittedTool ==
  ASSUME NEW d, NEW record, NEW contracts, IsSequence(record.decisions),
         compileManifest(emit(d, record, contracts)),
         NEW t \in Docs(compile(load(toDisk(emit(d, record, contracts)))).tools)
  PROVE  /\ \E k \in 1..Len(plansOf(d, record)) :
              /\ plansOf(d, record)[k].decision.capabilityId = t.id
              /\ plansOf(d, record)[k].operation.key = t.connector.key
         /\ t.contract # None => t.id \in DOMAIN contracts
<1>. DEFINE plans == plansOf(d, record)
            files == emit(d, record, contracts)
            model == load(toDisk(files))
<1>1. PlanList(d, record, plans)
  BY PlansAreKept
<1>2. IsFiniteSet(DOMAIN files)
  BY <1>1, EmittedIsFinite DEF PlanList, IsSequence
<1>3. /\ IsList(model.capability) /\ Docs(model.capability) = {files[p] : p \in FilesOf(files, "capability")}
      /\ IsList(model.binding) /\ Docs(model.binding) = {files[p] : p \in FilesOf(files, "binding")}
  BY <1>2, LoadedFiles, Zenon
<1>. HIDE DEF model
<1>4. /\ \E c \in Docs(model.capability) : c.id = t.id
      /\ IF t.connector = None
         THEN \A b \in Docs(model.binding) : b.capabilityId = t.id => lowerConnector(b.connector) = None
         ELSE \E b \in Docs(model.binding) : b.capabilityId = t.id /\ lowerConnector(b.connector) = t.connector
      /\ t.contract # None => \E b \in Docs(model.binding) : b.capabilityId = t.id /\ b.contract # None
  BY <1>3, ToolParts DEF model
<1>5. PICK k \in 1..Len(plans) : plans[k].decision.capabilityId = t.id
  <2>1. PICK p \in FilesOf(files, "capability") : files[p].id = t.id
    BY <1>3, <1>4
  <2>2. p \in DOMAIN files /\ p[1] = "capability"
    BY <2>1 DEF FilesOf
  <2>3. PICK k \in 1..Len(plans) : files[p] = renderCapabilityFile(record, plans[k])
    <3>1. \A name : FilePath("binding", name)[1] # "capability"
      BY DEF FilePath
    <3>. QED BY <2>2, <3>1, EmittedFile
  <2>. QED BY <2>1, <2>3 DEF renderCapabilityFile
<1>6. ASSUME NEW b \in Docs(model.binding), b.capabilityId = t.id
      PROVE  b = renderBindingFile(d, record, plans[k], contracts)
  <2>1. PICK p \in FilesOf(files, "binding") : b = files[p]
    BY <1>3
  <2>2. p \in DOMAIN files /\ p[1] = "binding"
    BY <2>1 DEF FilesOf
  <2>3. PICK i \in 1..Len(plans) : b = renderBindingFile(d, record, plans[i], contracts)
    <3>1. \A name : FilePath("capability", name)[1] # "binding"
      BY DEF FilePath
    <3>. QED BY <2>1, <2>2, <3>1, EmittedFile
  <2>4. plans[i].decision.capabilityId = t.id
    BY <1>6, <2>3 DEF renderBindingFile
  <2>5. i = k
    BY <1>1, <1>5, <2>4 DEF PlanList
  <2>. QED BY <2>3, <2>5
<1>. DEFINE own == renderBindingFile(d, record, plans[k], contracts)
<1>7. /\ own.capabilityId = t.id
      /\ lowerConnector(own.connector) = own.connector
      /\ own.connector.key = plans[k].operation.key
      /\ own.contract # None => t.id \in DOMAIN contracts
  BY <1>5 DEF renderBindingFile, lowerConnector, ConnectorTypes
<1>8. own \in Docs(model.binding)
  <2>1. files # NoFiles
    BY <1>3, <1>4 DEF NoFiles, FilesOf
  <2>. DEFINE p == FilePath("binding", plans[k].decision.capabilityId)
  <2>2. p \in DOMAIN files
    BY <2>1, PlansAreBound
  <2>3. p \in FilesOf(files, "binding") /\ p[1] = "binding"
    BY <2>2 DEF FilesOf, FilePath
  <2>4. files[p] \in Docs(model.binding)
    BY <1>3, <2>3
  <2>5. PICK i \in 1..Len(plans) :
          /\ p = FilePath("binding", plans[i].decision.capabilityId)
          /\ files[p] = renderBindingFile(d, record, plans[i], contracts)
    <3>1. \A name : FilePath("capability", name)[1] # "binding"
      BY DEF FilePath
    <3>. HIDE DEF p
    <3>. QED BY <2>2, <2>3, <3>1, EmittedFile
  <2>6. plans[i].decision.capabilityId = t.id
    BY <1>5, <2>5 DEF FilePath
  <2>7. i = k
    BY <1>1, <1>5, <2>6 DEF PlanList
  <2>. QED BY <2>4, <2>5, <2>7
<1>. HIDE DEF own
<1>9. t.connector = own.connector
  BY <1>4, <1>6, <1>7, <1>8 DEF own
<1>10. t.contract # None => own.contract # None
  BY <1>4, <1>6 DEF own
<1>. QED BY <1>5, <1>7, <1>9, <1>10

-----------------------------------------------------------------------------
(* Whose requests were sent: each is of a plan of the run's record, a      *)
(* probe of the decision it was sent for, a replay of what was probed.     *)
OfAPlan(r) ==
  \E k \in 1..Len(plansOf(draft, run.record)) :
    /\ plansOf(draft, run.record)[k].decision.capabilityId = r.id
    /\ plansOf(draft, run.record)[k].operation.key = r.key

SentByPlan ==
  \A r \in requests :
    /\ OfAPlan(r)
    /\ IF r.by = "replay" THEN \E p \in requests : p.by = "probe" /\ p.id = r.id
       ELSE r.by = "probe" /\ r.decision.capabilityId = r.id

(* What the run holds of its emission at each place. *)
FilesByStage ==
  /\ run.pc \in {"staging", "probe", "replay", "commit"} \cup Committing =>
       /\ IsSequence(run.record.decisions)
       /\ \E contracts : run.files = emit(draft, run.record, contracts)
  /\ run.pc \in {"probe", "replay"} =>
       compileManifest(run.files) /\ run.ir = compile(load(toDisk(run.files)))
  /\ run.pc = "replay" => run.files = emit(draft, run.record, run.recorded)
  /\ requests # {} => IsSequence(run.record.decisions)

OperationInv == SentByPlan /\ FilesByStage

(* Nothing is sent and nothing emitted when a command starts. *)
LEMMA OperationInit == Init => OperationInv
BY DEF Init, OperationInv, SentByPlan, FilesByStage, Started, NoRun, Committing

(* A step that sends nothing and keeps the record leaves whose requests    *)
(* were sent.                                                              *)
LEMMA StillOfPlans ==
  ASSUME SentByPlan, UNCHANGED <<draft, requests>>, requests = {} \/ run'.record = run.record
  PROVE  SentByPlan'
BY DEF SentByPlan, OfAPlan

(* A tool of what the run compiled is of a plan. *)
LEMMA ToolOfAPlan ==
  ASSUME FilesByStage, run.pc \in {"probe", "replay"}, NEW t \in Docs(run.ir.tools)
  PROVE  /\ \E k \in 1..Len(plansOf(draft, run.record)) :
              /\ plansOf(draft, run.record)[k].decision.capabilityId = t.id
              /\ plansOf(draft, run.record)[k].operation.key = t.connector.key
         /\ run.pc = "replay" /\ t.contract # None => t.id \in DOMAIN run.recorded
<1>1. PICK contracts : /\ run.files = emit(draft, run.record, contracts)
                       /\ run.pc = "replay" => contracts = run.recorded
  BY DEF FilesByStage
<1>2. IsSequence(run.record.decisions) /\ compileManifest(run.files) /\ t \in Docs(compile(load(toDisk(run.files))).tools)
  BY DEF FilesByStage
<1>3. /\ \E k \in 1..Len(plansOf(draft, run.record)) :
           /\ plansOf(draft, run.record)[k].decision.capabilityId = t.id
           /\ plansOf(draft, run.record)[k].operation.key = t.connector.key
      /\ t.contract # None => t.id \in DOMAIN contracts
  BY <1>1, <1>2, EmittedTool
<1>. QED BY <1>1, <1>3

(* Only a probe and a replay send, and both ask the connector of a tool    *)
(* that was compiled from the plans of the record.                         *)
LEMMA OperationStep ==
  ASSUME OperationInv, ConsentInv, ContractInv, [Next]_vars, ConsentInv'
  PROVE  OperationInv'
<1>. USE DEF OperationInv
<1>1. /\ run.pc \in {"start", "company", "gate", "emit", "staging"} => requests = {}
      /\ run.pc \in {"emit", "staging"} => IsSequence(run.record.decisions)
      /\ DOMAIN run = Fields /\ DOMAIN run' = Fields
  BY DEF ConsentInv, Decided, RunIsRecord
<1>2. ASSUME UNCHANGED <<draft, requests>>, run'.record = run.record, run'.pc = "over" PROVE OperationInv'
  BY <1>2, StillOfPlans DEF FilesByStage, Committing
<1>3. ASSUME requests = {}, UNCHANGED <<draft, requests>>, run'.pc \in {"company", "gate", "emit", "over"}
      PROVE  OperationInv'
  BY <1>3, StillOfPlans DEF FilesByStage, Committing
<1>4. ASSUME NEW outcome, Over(outcome), UNCHANGED <<draft, requests>> PROVE OperationInv'
  <2>1. run'.record = run.record /\ run'.pc = "over"
    BY <1>4 DEF Over, NoRun
  <2>. QED BY <1>2, <1>4, <2>1
<1>5. CASE UNCHANGED vars \/ AuthorSaves \/ BackendChanges
  <2>1. UNCHANGED <<draft, run, requests>>
    BY <1>5 DEF vars, AuthorSaves, BackendChanges
  <2>. QED BY <2>1, StillOfPlans DEF FilesByStage
<1>6. CASE runInitCmd \/ GateOpens \/ AnswerCandidate \/ GateCloses \/ GateGivesUp \/ InputEnds
  <2>1. UNCHANGED <<draft, requests>> /\ run.pc \in {"start", "company", "gate"}
    BY <1>6 DEF runInitCmd, GateOpens, AnswerCandidate, GateCloses, GateGivesUp, InputEnds, world
  <2>2. run'.pc \in {"company", "gate", "emit", "over"}
    BY <1>1, <1>6 DEF runInitCmd, GateOpens, AnswerCandidate, GateCloses, GateGivesUp, InputEnds, Over, Goes, Started,
                      NoRun, Fields
  <2>. QED BY <1>1, <1>3, <2>1, <2>2
<1>7. CASE EmitFirst
  <2>1. UNCHANGED <<draft, requests>> /\ requests = {} /\ IsSequence(run.record.decisions)
    BY <1>1, <1>7 DEF EmitFirst, world
  <2>2. CASE Over("refused")
    BY <1>4, <2>1, <2>2
  <2>3. CASE ~Over("refused")
    <3>1. /\ run'.record = run.record /\ run'.pc \in {"staging", "commit"}
          /\ run'.files = emit(draft, run.record, NoFiles)
      BY <1>1, <1>7, <2>3 DEF EmitFirst, Fields
    <3>. QED BY <2>1, <3>1, StillOfPlans DEF FilesByStage, Committing
  <2>. QED BY <2>2, <2>3
<1>8. CASE StagingCompiles
  <2>1. UNCHANGED <<draft, requests>> /\ run.pc = "staging"
    BY <1>8 DEF StagingCompiles, world
  <2>2. CASE Over("refused")
    BY <1>4, <2>1, <2>2
  <2>3. CASE ~Over("refused")
    <3>1. /\ run'.record = run.record /\ run'.pc = "probe" /\ run'.files = run.files
          /\ compileManifest(run.files) /\ run'.ir = compile(load(toDisk(run.files)))
      BY <1>1, <1>8, <2>3 DEF StagingCompiles, Fields
    <3>. QED BY <2>1, <3>1, StillOfPlans DEF FilesByStage
  <2>. QED BY <2>2, <2>3
<1>9. CASE runProbes
  <2>1. /\ UNCHANGED draft /\ run.pc = "probe" /\ run'.pc = run.pc /\ run'.record = run.record
        /\ run'.files = run.files /\ run'.ir = run.ir
    BY <1>1, <1>9 DEF runProbes, Probes, Fields, world
  <2>2. FilesByStage'
    BY <2>1 DEF FilesByStage
  <2>3. CASE UNCHANGED requests
    BY <2>1, <2>2, <2>3, StillOfPlans
  <2>4. CASE \E t \in Probed(Head(run.todo)) : Probes(t, Head(run.todo), body[t.connector.key])
    <3>1. PICK t \in Probed(Head(run.todo)) : Probes(t, Head(run.todo), body[t.connector.key])
      BY <2>4
    <3>. DEFINE new == Request(t, "probe", Head(run.todo), body[t.connector.key])
    <3>2. /\ requests' = requests \cup {new}
          /\ new.id = t.id /\ new.key = t.connector.key /\ new.by = "probe" /\ new.decision = Head(run.todo)
      BY <3>1 DEF Probes, Request
    <3>3. t \in Docs(run.ir.tools) /\ t.id = Head(run.todo).capabilityId
      BY <3>1 DEF Probed, ToolsOf
    <3>. HIDE DEF new
    <3>4. OfAPlan(new)
      BY <2>1, <3>2, <3>3, ToolOfAPlan DEF OfAPlan
    <3>5. \A r : OfAPlan(r)' <=> OfAPlan(r)
      BY <2>1 DEF OfAPlan
    <3>6. ASSUME NEW r \in requests'
          PROVE  /\ OfAPlan(r)
                 /\ IF r.by = "replay" THEN \E p \in requests' : p.by = "probe" /\ p.id = r.id
                    ELSE r.by = "probe" /\ r.decision.capabilityId = r.id
      <4>1. CASE r = new
        BY <3>2, <3>3, <3>4, <4>1
      <4>2. CASE r \in requests
        BY <3>2, <4>2 DEF SentByPlan
      <4>. QED BY <3>2, <4>1, <4>2
    <3>. QED BY <2>2, <3>5, <3>6 DEF SentByPlan
  <2>. QED BY <1>9, <2>3, <2>4 DEF runProbes
<1>10. CASE ProbesDone
  <2>1. UNCHANGED <<draft, requests>> /\ run.pc = "probe"
    BY <1>10 DEF ProbesDone, world
  <2>2. CASE Over("refused")
    BY <1>4, <2>1, <2>2
  <2>3. CASE run'.pc = "commit" /\ run'.record = run.record /\ run'.files = run.files
    BY <2>1, <2>3, StillOfPlans DEF FilesByStage
  <2>4. CASE /\ run'.pc = "replay" /\ run'.record = run.record /\ run'.recorded = run.recorded
             /\ run'.files = emit(draft, run.record, run.recorded)
             /\ compileManifest(run'.files) /\ run'.ir = compile(load(toDisk(run'.files)))
    BY <2>1, <2>4, StillOfPlans DEF FilesByStage
  <2>. QED BY <1>1, <1>10, <2>2, <2>3, <2>4 DEF ProbesDone, Goes, Fields
<1>11. CASE verifyRecorded
  <2>1. /\ UNCHANGED draft /\ run.pc = "replay" /\ run'.pc = run.pc /\ run'.record = run.record
        /\ run'.files = run.files /\ run'.ir = run.ir /\ run'.recorded = run.recorded
    BY <1>1, <1>11 DEF verifyRecorded, Replays, Fields, world
  <2>2. FilesByStage'
    BY <2>1 DEF FilesByStage
  <2>3. PICK t \in Replayed : Replays(t, body[t.connector.key])
    BY <1>11 DEF verifyRecorded
  <2>. DEFINE new == Request(t, "replay", None, body[t.connector.key])
  <2>4. requests' = requests \cup {new} /\ new.id = t.id /\ new.key = t.connector.key /\ new.by = "replay"
    BY <2>3 DEF Replays, Request
  <2>5. t \in Docs(run.ir.tools) /\ t.contract # None
    BY <2>3 DEF Replayed
  <2>. HIDE DEF new
  <2>6. OfAPlan(new) /\ t.id \in DOMAIN run.recorded
    BY <2>1, <2>4, <2>5, ToolOfAPlan DEF OfAPlan
  <2>7. \E p \in requests : p.by = "probe" /\ p.id = t.id
    BY <2>6 DEF ContractInv, RecordedAreProbed
  <2>8. \A r : OfAPlan(r)' <=> OfAPlan(r)
    BY <2>1 DEF OfAPlan
  <2>9. ASSUME NEW r \in requests'
        PROVE  /\ OfAPlan(r)
               /\ IF r.by = "replay" THEN \E p \in requests' : p.by = "probe" /\ p.id = r.id
                  ELSE r.by = "probe" /\ r.decision.capabilityId = r.id
    <3>1. CASE r = new
      BY <2>4, <2>6, <2>7, <3>1
    <3>2. CASE r \in requests
      BY <2>4, <3>2 DEF SentByPlan
    <3>. QED BY <2>4, <3>1, <3>2
  <2>. QED BY <2>2, <2>8, <2>9 DEF SentByPlan
<1>12. CASE ReplaysDone
  <2>1. /\ UNCHANGED <<draft, requests>> /\ run.pc = "replay" /\ run'.pc = "commit" /\ run'.record = run.record
        /\ \E contracts : run'.files = emit(draft, run.record, contracts)
    BY <1>1, <1>12 DEF ReplaysDone, Fields, world
  <2>. QED BY <2>1, StillOfPlans DEF FilesByStage
<1>13. CASE commitFileSet \/ CopyDone \/ ReportWritten
  <2>1. UNCHANGED <<draft, requests>> /\ run.pc \in {"commit"} \cup Committing
    BY <1>13 DEF commitFileSet, CopyDone, ReportWritten, world, Committing
  <2>2. CASE Over("refused")
    BY <1>4, <2>1, <2>2
  <2>3. CASE ~Over("refused")
    <3>1. run'.record = run.record /\ run'.files = run.files /\ run'.pc \in Committing
      BY <1>1, <1>13, <2>3 DEF commitFileSet, CopyDone, ReportWritten, Fields, Committing
    <3>. QED BY <2>1, <3>1, StillOfPlans DEF FilesByStage, Committing
  <2>. QED BY <2>2, <2>3
<1>14. CASE CopyBreaksOff \/ Killed
  BY <1>4, <1>14 DEF CopyBreaksOff, Killed, world
<1>. QED BY <1>5, <1>6, <1>7, <1>8, <1>9, <1>10, <1>11, <1>12, <1>13, <1>14 DEF Next

(* The inductive invariants say whose operation is asked. *)
LEMMA PlansTell ==
  ASSUME OperationInv, ConsentInv PROVE ProbesTheirOperation
<1>. DEFINE plans == plansOf(draft, run.record)
<1>1. requests # {} => PlanList(draft, run.record, plans)
  BY PlansAreKept DEF OperationInv, FilesByStage
<1>2. ASSUME NEW r \in requests
      PROVE  \E k \in 1..Len(plans) : plans[k].decision.capabilityId = r.id /\ plans[k].operation.key = r.key
  BY DEF OperationInv, SentByPlan, OfAPlan
<1>. HIDE DEF plans
<1>3. ASSUME NEW r \in requests, r.by # "replay",
             \A e \in Docs(run.record.decisions) \ {r.decision} : ~SameId(r.decision, e)
      PROVE  r.key = r.decision.operation
  <2>1. PICK k \in 1..Len(plans) : plans[k].decision.capabilityId = r.id /\ plans[k].operation.key = r.key
    BY <1>2
  <2>2. r.by = "probe" /\ r.decision.capabilityId = r.id
    BY <1>3 DEF OperationInv, SentByPlan
  <2>3. r.decision \in keptDecisions(run.record)
    BY <2>2 DEF ConsentInv, ProbesConsented
  <2>4. plans[k].decision \in keptDecisions(run.record) /\ plans[k].operation.key = plans[k].decision.operation
    BY <1>1 DEF PlanList, OperationsOf
  <2>5. plans[k].decision = r.decision
    BY <1>3, <2>1, <2>2, <2>3, <2>4 DEF SameId, keptDecisions
  <2>. QED BY <2>1, <2>4, <2>5
<1>4. ASSUME NEW b \in Committed, NEW r \in requests, r.id = b.capabilityId PROVE r.key = b.connector.key
  <2>1. PICK k \in 1..Len(plans) : plans[k].decision.capabilityId = r.id /\ plans[k].operation.key = r.key
    BY <1>2
  <2>2. b \in Bindings(run.files) /\ run.pc \in Committing
    BY <1>4 DEF Committed, Emitted, Committing
  <2>3. PICK contracts : run.files = emit(draft, run.record, contracts)
    BY <2>2 DEF OperationInv, FilesByStage
  <2>4. PICK p \in DOMAIN run.files : p[1] = "binding" /\ b = run.files[p]
    BY <2>2 DEF Bindings, FilesOf
  <2>5. PICK i \in 1..Len(plans) : b = renderBindingFile(draft, run.record, plans[i], contracts)
    <3>1. \A name : FilePath("capability", name)[1] # "binding"
      BY DEF FilePath
    <3>. QED BY <2>3, <2>4, <3>1, EmittedFile DEF plans
  <2>6. plans[i].decision.capabilityId = b.capabilityId /\ b.connector.key = plans[i].operation.key
    BY <2>5 DEF renderBindingFile
  <2>7. i = k
    BY <1>1, <1>4, <2>1, <2>6 DEF PlanList
  <2>. QED BY <2>1, <2>6, <2>7
<1>5. ASSUME NEW r \in requests, r.by = "replay" PROVE \E p \in requests : p.by = "probe" /\ p.id = r.id
  BY <1>5 DEF OperationInv, SentByPlan
<1>. QED BY <1>3, <1>4, <1>5 DEF ProbesTheirOperation

(* A run of init, however its prompts are answered, sends only what was    *)
(* consented to; a probe goes to the operation that its decision names,    *)
(* and a replay to what was probed (probe.ts runProbes, verifyRecorded);   *)
(* a committed contract is the shape of an answer of that operation, and   *)
(* its replay did not fail (emit.ts, loop.ts runInit).                     *)
THEOREM ContractsEarned == Spec => []ContractsAreEarned
<1>1. CommitInv /\ ConsentInv /\ ContractInv /\ OperationInv /\ [Next]_vars
      => CommitInv' /\ ConsentInv' /\ ContractInv' /\ OperationInv'
  <2>1. CommitInv /\ ConsentInv /\ ContractInv /\ [Next]_vars => CommitInv' /\ ConsentInv' /\ ContractInv'
    BY RecordStays, TargetStep, ConsentStep, ContractStep DEF CommitInv, ConsentInv, ContractInv
  <2>. QED BY <2>1, OperationStep
<1>2. ConsentInv /\ ContractInv /\ OperationInv => ContractsAreEarned
  BY PlansTell DEF ConsentInv, ContractInv, RecordedAreProbed, ContractsByStage, CommittedAreReplayed, Committed,
                   ContractsAreEarned
<1>. QED BY CommitInit, ConsentInit, ContractInit, OperationInit, <1>1, <1>2, PTL DEF Spec

-----------------------------------------------------------------------------
(* An emission as it is loaded. *)

(* The kinds of documents that a manifest lists.                           *)
Kinds == {"capability", "binding", "resource", "policy"}

(* A manifest that holds what plans render, and nothing else. *)
Rendered(model, d, record, contracts) ==
  LET plans == plansOf(d, record)
  IN /\ model.capabilities = renderCapabilitiesFile(record, plans)
     /\ IsList(model.capability) /\ IsList(model.binding) /\ IsList(model.resource)
     /\ Docs(model.capability) = {renderCapabilityFile(record, plans[k]) : k \in 1..Len(plans)}
     /\ Docs(model.binding) = {renderBindingFile(d, record, plans[k], contracts) : k \in 1..Len(plans)}
     /\ ~DuplicateIds(model.capability)
     /\ \A doc \in Docs(model.resource) : \E k \in 1..Len(plans) : \E r \in Claims(plans[k]) : doc = renderResourceFile(r)
     /\ \A k \in 1..Len(plans) : \A r \in Claims(plans[k]) : \E doc \in Docs(model.resource) : doc.name = r.name
     /\ Docs(model.policy) = {} /\ ~DuplicateIds(model.policy)

(* Every document that is emitted is a record: none is torn.               *)
LEMMA NoDocumentIsTorn ==
  ASSUME TornIsNoRecord, NEW d, NEW record, NEW contracts, NEW p \in DOMAIN emit(d, record, contracts)
  PROVE  emit(d, record, contracts)[p] # Torn
<1>. DEFINE doc == emit(d, record, contracts)[p]
<1>1. ASSUME NEW r, NEW keys, r = [k \in keys |-> r[k]] PROVE r # Torn
  BY <1>1 DEF TornIsNoRecord, IsRecord
<1>2. \A r1, r2 : [providers |-> r1, capabilities |-> r2] # Torn
  <2>1. TAKE r1, r2
  <2>. DEFINE r == [providers |-> r1, capabilities |-> r2]
  <2>2. r = [k \in {"providers", "capabilities"} |-> r[k]]
    OBVIOUS
  <2>. HIDE DEF r
  <2>. QED BY <1>1, <2>2 DEF r
<1>3. \A r1, r2, r3 : [name |-> r1, blocks |-> r2, fields |-> r3] # Torn
  <2>1. TAKE r1, r2, r3
  <2>. DEFINE r == [name |-> r1, blocks |-> r2, fields |-> r3]
  <2>2. r = [k \in {"name", "blocks", "fields"} |-> r[k]]
    OBVIOUS
  <2>. HIDE DEF r
  <2>. QED BY <1>1, <2>2 DEF r
<1>4. \A r1, r2, r3, r4, r5, r6, r7, r8 :
        [id |-> r1, provider |-> r2, effect |-> r3, tokens |-> r4, lifecycle |-> r5, description |-> r6,
         input |-> r7, output |-> r8] # Torn
  <2>1. TAKE r1, r2, r3, r4, r5, r6, r7, r8
  <2>. DEFINE r == [id |-> r1, provider |-> r2, effect |-> r3, tokens |-> r4, lifecycle |-> r5, description |-> r6,
                    input |-> r7, output |-> r8]
  <2>2. r = [k \in {"id", "provider", "effect", "tokens", "lifecycle", "description", "input", "output"} |-> r[k]]
    OBVIOUS
  <2>. HIDE DEF r
  <2>. QED BY <1>1, <2>2 DEF r
<1>5. \A r1, r2, r3, r4, r5, r6 :
        [capabilityId |-> r1, extract |-> r2, blocks |-> r3, connector |-> r4, response |-> r5, contract |-> r6] # Torn
  <2>1. TAKE r1, r2, r3, r4, r5, r6
  <2>. DEFINE r == [capabilityId |-> r1, extract |-> r2, blocks |-> r3, connector |-> r4, response |-> r5, contract |-> r6]
  <2>2. r = [k \in {"capabilityId", "extract", "blocks", "connector", "response", "contract"} |-> r[k]]
    OBVIOUS
  <2>. HIDE DEF r
  <2>. QED BY <1>1, <2>2 DEF r
<1>6. \A r1, r2 : [request |-> r1, nonEmpty |-> r2] # Torn
  <2>1. TAKE r1, r2
  <2>. DEFINE r == [request |-> r1, nonEmpty |-> r2]
  <2>2. r = [k \in {"request", "nonEmpty"} |-> r[k]]
    OBVIOUS
  <2>. HIDE DEF r
  <2>. QED BY <1>1, <2>2 DEF r
<1>7. \A plans : renderCapabilitiesFile(record, plans) # Torn
  BY <1>2 DEF renderCapabilitiesFile
<1>8. \A r : renderResourceFile(r) # Torn
  BY <1>3 DEF renderResourceFile
<1>9. \A plan : renderCapabilityFile(record, plan) # Torn
  BY <1>4 DEF renderCapabilityFile
<1>10. \A plan : renderBindingFile(d, record, plan, contracts) # Torn
  BY <1>5 DEF renderBindingFile
<1>11. RecordedFixture # Torn
  BY <1>6 DEF RecordedFixture
<1>. QED BY <1>7, <1>8, <1>9, <1>10, <1>11, EmittedPart

(* An emission loads (loader.ts), and what is loaded is what was rendered. *)
LEMMA LoadedEmission ==
  ASSUME TornIsNoRecord, NEW d, NEW record, NEW contracts, IsSequence(record.decisions),
         emit(d, record, contracts) # NoFiles
  PROVE  LET model == load(toDisk(emit(d, record, contracts)))
         IN model.ok /\ Rendered(model, d, record, contracts)
<1>. DEFINE plans == plansOf(d, record)
            files == emit(d, record, contracts)
            disk == toDisk(files)
            model == load(disk)
<1>1. PlanList(d, record, plans)
  BY PlansAreKept
<1>2. IsFiniteSet(DOMAIN files)
  BY <1>1, EmittedIsFinite DEF PlanList, IsSequence
<1>3. \A p \in DOMAIN files : files[p] # Torn
  BY NoDocumentIsTorn
<1>4. /\ CapabilitiesFile \in DOMAIN files /\ files[CapabilitiesFile] = renderCapabilitiesFile(record, plans)
  <2>1. CapabilitiesFile \in DOMAIN files
    BY PlansHaveFiles
  <2>. QED BY <2>1, EmittedPart DEF CapabilitiesFile, FilePath
<1>5. /\ disk.caps = files[CapabilitiesFile]
      /\ \A kind \in Kinds : disk[kind] = DocsOf(files, kind)
  BY <1>4 DEF toDisk, Kinds
<1>. HIDE DEF disk
<1>6. ASSUME NEW kind \in Kinds
      PROVE  /\ IsList(disk[kind])
             /\ Docs(disk[kind]) = {files[p] : p \in FilesOf(files, kind)}
             /\ \A i \in 1..Len(disk[kind]) : disk[kind][i] # Torn
             /\ Loaded(disk[kind]) = disk[kind]
             /\ \A i, k \in 1..Len(disk[kind]) : i # k =>
                  \E p, q \in FilesOf(files, kind) : p # q /\ disk[kind][i] = files[p] /\ disk[kind][k] = files[q]
  <2>1. /\ IsList(disk[kind])
        /\ Docs(disk[kind]) = {files[p] : p \in FilesOf(files, kind)}
        /\ \A i, k \in 1..Len(disk[kind]) : i # k =>
             \E p, q \in FilesOf(files, kind) : p # q /\ disk[kind][i] = files[p] /\ disk[kind][k] = files[q]
    BY <1>2, <1>5, DocumentsOf
  <2>2. ASSUME NEW i \in 1..Len(disk[kind]) PROVE disk[kind][i] # Torn
    <3>1. disk[kind][i] \in Docs(disk[kind])
      BY DEF Docs
    <3>. HIDE DEF files
    <3>2. PICK p \in FilesOf(files, kind) : disk[kind][i] = files[p]
      BY <2>1, <3>1
    <3>. QED BY <1>3, <3>2 DEF FilesOf
  <2>. QED BY <2>1, <2>2, LoadedWhole
<1>7. /\ model.ok /\ model.capabilities = renderCapabilitiesFile(record, plans)
      /\ model.capability = disk.capability /\ model.binding = disk.binding
      /\ model.resource = disk.resource /\ model.policy = disk.policy
  <2>1. disk.caps # Torn
    BY <1>3, <1>4, <1>5
  <2>. HIDE DEF files
  <2>. QED BY <1>4, <1>5, <1>6, <2>1 DEF load, Kinds
<1>. HIDE DEF model, files
<1>8. ASSUME NEW kind \in Kinds, NEW p \in FilesOf(files, kind)
      PROVE  /\ p \in DOMAIN files
             /\ kind = "resource" => \E k \in 1..Len(plans) : \E r \in Claims(plans[k]) :
                                       p = FilePath("resource", r.name) /\ files[p] = renderResourceFile(r)
             /\ kind = "capability" => \E k \in 1..Len(plans) :
                                         /\ p = FilePath("capability", plans[k].decision.capabilityId)
                                         /\ files[p] = renderCapabilityFile(record, plans[k])
             /\ kind = "binding" => \E k \in 1..Len(plans) :
                                      /\ p = FilePath("binding", plans[k].decision.capabilityId)
                                      /\ files[p] = renderBindingFile(d, record, plans[k], contracts)
             /\ kind # "policy"
  <2>1. p \in DOMAIN files /\ p[1] = kind
    BY <1>8 DEF FilesOf
  <2>2. \A k1, n : FilePath(k1, n)[1] = k1
    BY DEF FilePath
  <2>3. CapabilitiesFile[1] = "capabilities"
    BY <2>2 DEF CapabilitiesFile
  <2>. QED BY <2>1, <2>2, <2>3, EmittedPart DEF files, Kinds
<1>9. ASSUME NEW k \in 1..Len(plans)
      PROVE  /\ files[FilePath("capability", plans[k].decision.capabilityId)] = renderCapabilityFile(record, plans[k])
             /\ FilePath("capability", plans[k].decision.capabilityId) \in FilesOf(files, "capability")
             /\ files[FilePath("binding", plans[k].decision.capabilityId)] = renderBindingFile(d, record, plans[k], contracts)
             /\ FilePath("binding", plans[k].decision.capabilityId) \in FilesOf(files, "binding")
             /\ \A r \in Claims(plans[k]) :
                  /\ FilePath("resource", r.name) \in FilesOf(files, "resource")
                  /\ files[FilePath("resource", r.name)].name = r.name
  <2>1. /\ FilePath("capability", plans[k].decision.capabilityId) \in FilesOf(files, "capability")
        /\ FilePath("binding", plans[k].decision.capabilityId) \in FilesOf(files, "binding")
        /\ \A r \in Claims(plans[k]) : FilePath("resource", r.name) \in FilesOf(files, "resource")
    <3>1. /\ {FilePath("capability", plans[k].decision.capabilityId), FilePath("binding", plans[k].decision.capabilityId)}
               \subseteq DOMAIN files
          /\ \A r \in Claims(plans[k]) : FilePath("resource", r.name) \in DOMAIN files
      BY PlansHaveFiles DEF files
    <3>2. \A k1, n : FilePath(k1, n)[1] = k1
      BY DEF FilePath
    <3>. QED BY <3>1, <3>2 DEF FilesOf
  <2>. DEFINE a == FilePath("capability", plans[k].decision.capabilityId)
              b == FilePath("binding", plans[k].decision.capabilityId)
  <2>2. \A k1, k2, n1, n2 : FilePath(k1, n1) = FilePath(k2, n2) => n1 = n2
    BY DEF FilePath
  <2>3. PICK i \in 1..Len(plans) : /\ a = FilePath("capability", plans[i].decision.capabilityId)
                                  /\ files[a] = renderCapabilityFile(record, plans[i])
    BY <1>8, <2>1 DEF Kinds
  <2>4. PICK j \in 1..Len(plans) : /\ b = FilePath("binding", plans[j].decision.capabilityId)
                                  /\ files[b] = renderBindingFile(d, record, plans[j], contracts)
    BY <1>8, <2>1 DEF Kinds
  <2>5. i = k /\ j = k
    BY <1>1, <2>2, <2>3, <2>4 DEF PlanList
  <2>6. ASSUME NEW r \in Claims(plans[k]) PROVE files[FilePath("resource", r.name)].name = r.name
    <3>. DEFINE p == FilePath("resource", r.name)
    <3>1. PICK m \in 1..Len(plans) : \E s \in Claims(plans[m]) :
                                       p = FilePath("resource", s.name) /\ files[p] = renderResourceFile(s)
      BY <1>8, <2>1 DEF Kinds
    <3>. QED BY <2>2, <3>1 DEF renderResourceFile
  <2>. QED BY <2>1, <2>3, <2>4, <2>5, <2>6
<1>. HIDE DEF plans
<1>10. Docs(disk.capability) = {renderCapabilityFile(record, plans[k]) : k \in 1..Len(plans)}
  <2>1. Docs(disk.capability) = {files[p] : p \in FilesOf(files, "capability")}
    BY <1>6 DEF Kinds
  <2>2. ASSUME NEW doc \in Docs(disk.capability) PROVE \E k \in 1..Len(plans) : doc = renderCapabilityFile(record, plans[k])
    BY <1>8, <2>1 DEF Kinds
  <2>3. ASSUME NEW k \in 1..Len(plans) PROVE renderCapabilityFile(record, plans[k]) \in Docs(disk.capability)
    BY <1>9, <2>1
  <2>. QED BY <2>2, <2>3
<1>11. Docs(disk.binding) = {renderBindingFile(d, record, plans[k], contracts) : k \in 1..Len(plans)}
  <2>1. Docs(disk.binding) = {files[p] : p \in FilesOf(files, "binding")}
    BY <1>6 DEF Kinds
  <2>2. ASSUME NEW doc \in Docs(disk.binding)
        PROVE  \E k \in 1..Len(plans) : doc = renderBindingFile(d, record, plans[k], contracts)
    BY <1>8, <2>1 DEF Kinds
  <2>3. ASSUME NEW k \in 1..Len(plans) PROVE renderBindingFile(d, record, plans[k], contracts) \in Docs(disk.binding)
    BY <1>9, <2>1
  <2>. QED BY <2>2, <2>3
<1>12. ~DuplicateIds(disk.capability)
  <2>1. SUFFICES ASSUME NEW i \in 1..Len(disk.capability), NEW k \in 1..Len(disk.capability), i # k
                 PROVE  disk.capability[i].id # disk.capability[k].id
    BY DEF DuplicateIds
  <2>2. PICK p \in FilesOf(files, "capability"), q \in FilesOf(files, "capability") :
          p # q /\ disk.capability[i] = files[p] /\ disk.capability[k] = files[q]
    BY <1>6, <2>1 DEF Kinds
  <2>3. PICK a \in 1..Len(plans) : /\ p = FilePath("capability", plans[a].decision.capabilityId)
                                  /\ files[p] = renderCapabilityFile(record, plans[a])
    BY <1>8 DEF Kinds
  <2>4. PICK b \in 1..Len(plans) : /\ q = FilePath("capability", plans[b].decision.capabilityId)
                                  /\ files[q] = renderCapabilityFile(record, plans[b])
    BY <1>8 DEF Kinds
  <2>. QED BY <2>2, <2>3, <2>4 DEF renderCapabilityFile
<1>13. \A doc \in Docs(disk.resource) : \E k \in 1..Len(plans) : \E r \in Claims(plans[k]) : doc = renderResourceFile(r)
  <2>1. Docs(disk.resource) = {files[p] : p \in FilesOf(files, "resource")}
    BY <1>6 DEF Kinds
  <2>. QED BY <1>8, <2>1 DEF Kinds
<1>14. \A k \in 1..Len(plans) : \A r \in Claims(plans[k]) : \E doc \in Docs(disk.resource) : doc.name = r.name
  <2>1. Docs(disk.resource) = {files[p] : p \in FilesOf(files, "resource")}
    BY <1>6 DEF Kinds
  <2>. QED BY <1>9, <2>1
<1>15. Docs(disk.policy) = {} /\ ~DuplicateIds(disk.policy)
  <2>1. Docs(disk.policy) = {files[p] : p \in FilesOf(files, "policy")}
    BY <1>6 DEF Kinds
  <2>2. FilesOf(files, "policy") = {}
    BY <1>8 DEF Kinds
  <2>. QED BY <2>1, <2>2 DEF Docs, DuplicateIds
<1>16. IsList(disk.capability) /\ IsList(disk.binding) /\ IsList(disk.resource)
  BY <1>6 DEF Kinds
<1>. QED BY <1>7, <1>10, <1>11, <1>12, <1>13, <1>14, <1>15, <1>16 DEF Rendered, model, disk, files, plans

-----------------------------------------------------------------------------
(* The names that are emitted. *)

(* A name in a domain is a sequence with a dot in it. *)
InDomain(name) == IsSequence(name) /\ Dots(name) # {}

(* A local name is put into its capability's domain (names.ts              *)
(* qualifyResourceName).                                                   *)
LEMMA Qualified ==
  ASSUME NEW id, InDomain(id), NEW chosen, IsName(chosen)
  PROVE  LET name == qualifyResourceName(chosen, domainOf(id)) IN IsName(name) /\ InDomain(name)
<1>1. CASE Dots(chosen) # {}
  BY <1>1 DEF qualifyResourceName, InDomain, IsName
<1>2. CASE Dots(chosen) = {}
  <2>. DEFINE S == Docs(id) \cup Docs(chosen) \cup {Dot}
              domain == domainOf(id)
              name == domain \o <<Dot>> \o chosen
  <2>1. id \in Seq(S) /\ chosen \in Seq(S) /\ chosen # <<>>
    BY DEF InDomain, IsName, IsSequence
  <2>2. domain \in Seq(S)
    <3>1. \E i \in Dots(id) : \A k \in Dots(id) : i <= k
      <4>1. Dots(id) \in SUBSET Nat
        BY <2>1 DEF Dots
      <4>. QED BY <4>1, LeastOf DEF InDomain
    <3>. DEFINE first == CHOOSE i \in Dots(id) : \A k \in Dots(id) : i <= k
    <3>2. first \in Dots(id)
      BY <3>1
    <3>3. domain = SubSeq(id, 1, first - 1)
      BY DEF domainOf, InDomain
    <3>. HIDE DEF first, S, domain
    <3>4. first \in 1..Len(id)
      BY <3>2 DEF Dots
    <3>. QED BY <2>1, <3>3, <3>4
  <2>3. Dot \in S
    OBVIOUS
  <2>. HIDE DEF S, domain
  <2>4. /\ name \in Seq(S) /\ Len(name) = Len(domain) + 1 + Len(chosen)
        /\ Len(domain) \in Nat /\ Len(chosen) \in Nat /\ Len(chosen) > 0
        /\ name[Len(domain) + 1] = Dot
        /\ name[Len(name)] = chosen[Len(chosen)]
    BY <2>1, <2>2, <2>3
  <2>. HIDE DEF name
  <2>5. IsSequence(name) /\ Dots(name) # {} /\ name # <<>>
    <3>1. Len(domain) + 1 \in 1..Len(name)
      BY <2>4
    <3>2. Len(domain) + 1 \in Dots(name)
      BY <2>4, <3>1 DEF Dots
    <3>3. IsSequence(name)
      BY <2>4, SequenceOfItsOwn DEF IsSequence
    <3>. QED BY <2>4, <3>2, <3>3
  <2>6. qualifyResourceName(chosen, domainOf(id)) = name
    BY <1>2 DEF qualifyResourceName, name, domain
  <2>. QED BY <2>4, <2>5, <2>6 DEF IsName, InDomain
<1>. QED BY <1>1, <1>2

(* The error resource of a resource is another one, in the same domain. *)
LEMMA ErrorNamed ==
  ASSUME NEW name, IsName(name), InDomain(name)
  PROVE  LET err == [name EXCEPT ![Len(name)] = @ \o "Error"]
         IN InDomain(err) /\ err # name
<1>. DEFINE n == Len(name)
            last == name[n] \o "Error"
            err == [name EXCEPT ![n] = last]
            S == Docs(name) \cup {last}
<1>1. name \in Seq(S) /\ n \in Nat /\ n > 0
  BY DEF IsName, IsSequence
<1>2. last \in S /\ last # Dot /\ last # name[n] /\ name[n] # Dot
  BY DEF IsName, NamesAnError
<1>. HIDE DEF last, S
<1>3. err \in Seq(S) /\ Len(err) = n /\ err[n] = last /\ \A i \in 1..n : i # n => err[i] = name[i]
  BY <1>1, <1>2
<1>4. IsSequence(err)
  BY <1>3, SequenceOfItsOwn DEF IsSequence
<1>5. Dots(err) # {}
  <2>1. PICK i \in 1..n : name[i] = Dot
    BY DEF InDomain, Dots
  <2>. QED BY <1>2, <1>3, <2>1 DEF Dots
<1>. QED BY <1>1, <1>2, <1>3, <1>4, <1>5 DEF InDomain, last

(* A plan's resource has a name in a domain: the one its author gave, or   *)
(* one that the source gives, in the domain of the capability.             *)
LEMMA NamedInDomain ==
  ASSUME NoneIsNoRecord, NEW plan, NEW locus, NEW name, Mapped(plan, locus, name),
         IsDecision(plan.decision), plan.decision.keep, InDomain(plan.decision.capabilityId)
  PROVE  IsName(name) /\ InDomain(name)
<1>. DEFINE decision == plan.decision
            component == IF locus.locus.name = None THEN None ELSE toResourceLocalName(locus.locus.name)
            list == IF locus.property = None THEN None ELSE toResourceLocalName(singularize(locus.property))
            chosen == IF decision.resourceName # None THEN decision.resourceName
                      ELSE IF component # None THEN component ELSE list
<1>1. name # None /\ name = ResourceName(locus, decision)
  BY DEF Mapped
<1>2. chosen # None /\ name = qualifyResourceName(chosen, domainOf(decision.capabilityId))
  BY <1>1 DEF ResourceName
<1>3. ASSUME NEW raw, toResourceLocalName(raw) # None PROVE IsName(toResourceLocalName(raw))
  <2>1. raw \in DOMAIN PascalCase /\ toResourceLocalName(raw) = <<PascalCase[raw]>>
    BY <1>3 DEF toResourceLocalName
  <2>2. NamesAnError(PascalCase[raw])
    BY <2>1, NameAssumption
  <2>. DEFINE w == PascalCase[raw]
  <2>. HIDE DEF w
  <2>3. <<w>> \in Seq(Docs(<<w>>)) /\ <<w>> # <<>> /\ <<w>>[Len(<<w>>)] = w
    <3>1. <<w>> \in Seq({w}) /\ Len(<<w>>) = 1 /\ <<w>>[1] = w
      OBVIOUS
    <3>2. \A i \in 1..1 : i = 1
      OBVIOUS
    <3>3. Docs(<<w>>) = {w}
      BY <3>1, <3>2 DEF Docs
    <3>. QED BY <3>1, <3>3
  <2>. QED BY <2>1, <2>2, <2>3 DEF IsName, IsSequence, w
<1>4. decision.resourceName # None => IsName(decision.resourceName)
  BY DEF IsDecision
<1>5. IsName(chosen)
  BY <1>2, <1>3, <1>4
<1>. HIDE DEF chosen
<1>. QED BY <1>2, <1>5, Qualified

(* The decisions of a record are ones that the grammars let pass, and its  *)
(* provider is named.                                                      *)
SoundRecord(record) ==
  /\ IsSequence(record.decisions)
  /\ \A decision \in Docs(record.decisions) : IsDecision(decision)
  /\ providerId(record) # None

(* The names that a plan gives are names in a domain, and its failed rows  *)
(* have another one.                                                       *)
SoundResource(plan) ==
  /\ plan.resource # None
  /\ InDomain(plan.resource.name) /\ plan.resource.name # None
  /\ plan.onError # None =>
       LET name == plan.onError.resource.name
       IN IsCollection(plan) /\ InDomain(name) /\ name # None /\ name # plan.resource.name

(* The resource of failed rows is named after the one of the others.       *)
ErrorName(name) == [name EXCEPT ![Len(name)] = @ \o "Error"]

(* What the plan of failed rows is made of. *)
LEMMA ErrorParts ==
  ASSUME NEW rowErrors, NEW name
  PROVE  LET plan == planRowErrors(rowErrors, name)
         IN /\ plan.resource.name = ErrorName(name)
            /\ plan.resource.fields = {planResourceField(rowErrors.code, "code"),
                                       planResourceField(rowErrors.message, "message")}
            /\ plan.when.path = propertyAccessor(rowErrors.property) /\ plan.when.test = rowErrors.equals
<1>. DEFINE err == ErrorName(name)
            fields == {planResourceField(rowErrors.code, "code"), planResourceField(rowErrors.message, "message")}
            path == propertyAccessor(rowErrors.property)
            plan == planRowErrors(rowErrors, name)
<1>1. plan = [resource |-> [name |-> err, fields |-> fields], when |-> [path |-> path, test |-> rowErrors.equals]]
  BY Zenon DEF planRowErrors, ErrorName
<1>. HIDE DEF err, fields, path, plan
<1>2. /\ plan.resource.name = err /\ plan.resource.fields = fields
      /\ plan.when.path = path /\ plan.when.test = rowErrors.equals
  BY <1>1
<1>. QED BY <1>2 DEF err, fields, path, plan

(* A sequence is a function from the numbers up to its length.             *)
LEMMA SequenceIsList ==
  ASSUME NEW seq, IsSequence(seq) PROVE Len(seq) \in Nat /\ seq = [i \in 1..Len(seq) |-> seq[i]]
BY DEF IsSequence

(* A sequence is not None, as a record is not.                             *)
LEMMA SequenceIsSomething ==
  ASSUME NoneIsNoRecord, NEW seq, IsSequence(seq) PROVE seq # None
<1>1. seq = [i \in 1..Len(seq) |-> seq[i]]
  BY DEF IsSequence
<1>. HIDE DEF IsSequence
<1>2. IsRecord(seq, 1..Len(seq))
  BY <1>1 DEF IsRecord
<1>. QED BY <1>2 DEF NoneIsNoRecord

(* The plan of failed rows has a resource.                                 *)
LEMMA ErrorIsSomething ==
  ASSUME NoneIsNoRecord, NEW rowErrors, NEW name PROVE planRowErrors(rowErrors, name).resource # None
<1>. DEFINE err == ErrorName(name)
            fields == {planResourceField(rowErrors.code, "code"), planResourceField(rowErrors.message, "message")}
            path == propertyAccessor(rowErrors.property)
            plan == planRowErrors(rowErrors, name)
            r == [name |-> err, fields |-> fields]
<1>1. plan = [resource |-> [name |-> err, fields |-> fields], when |-> [path |-> path, test |-> rowErrors.equals]]
  BY Zenon DEF planRowErrors, ErrorName
<1>. HIDE DEF err, fields, path, plan
<1>2. plan.resource = r
  BY <1>1
<1>3. r = [f \in {"name", "fields"} |-> r[f]]
  OBVIOUS
<1>. HIDE DEF r
<1>4. IsRecord(r, {"name", "fields"})
  BY <1>3 DEF IsRecord
<1>. QED BY <1>2, <1>4 DEF NoneIsNoRecord, plan

(* Where a candidate of the census is: in the root, or in a list.          *)
LEMMA CandidateAt ==
  ASSUME NoneIsNoRecord, NEW response, NEW locus \in locusCandidates(response)
  PROVE  /\ locus.at # None /\ IsSequence(locus.at)
         /\ locus.kind = "collection" <=> locus.at # <<>>
         /\ locus.kind \in {"root", "collection"}
<1>1. \A a : <<a>> # None /\ <<a>> # <<>> /\ IsSequence(<<a>>)
  <2>1. TAKE a
  <2>2. <<a>> \in Seq({a}) /\ Len(<<a>>) = 1
    OBVIOUS
  <2>3. IsSequence(<<a>>)
    BY <2>2, SequenceOfItsOwn
  <2>. QED BY <2>2, <2>3, SequenceIsSomething
<1>2. \A a, b : <<a, b>> # None /\ <<a, b>> # <<>> /\ IsSequence(<<a, b>>)
  <2>1. TAKE a, b
  <2>2. <<a, b>> \in Seq({a, b}) /\ Len(<<a, b>>) = 2
    OBVIOUS
  <2>3. IsSequence(<<a, b>>)
    BY <2>2, SequenceOfItsOwn
  <2>. QED BY <2>2, <2>3, SequenceIsSomething
<1>3. <<>> # None /\ IsSequence(<<>>)
  <2>1. <<>> \in Seq({1})
    OBVIOUS
  <2>. QED BY <2>1, SequenceOfItsOwn, SequenceIsSomething
<1>4. \/ locus.kind = "collection" /\ locus.at = <<AnyItem>>
      \/ locus.kind = "root" /\ locus.at = <<>>
      \/ locus.kind = "collection" /\ \E p : locus.at = <<p, AnyItem>>
  BY DEF locusCandidates, Candidate
<1>. QED BY <1>1, <1>2, <1>3, <1>4

(* A plan of a sound record is in a domain, and maps to a place of the     *)
(* census or nothing.                                                      *)
LEMMA PlanIsSound ==
  ASSUME NoneIsNoRecord, NEW d, NEW record, SoundRecord(record), NEW plans, PlanList(d, record, plans),
         NEW k \in 1..Len(plans)
  PROVE  /\ InDomain(plans[k].decision.capabilityId)
         /\ plans[k].resource = None => plans[k].onError = None /\ plans[k].at = None
         /\ plans[k].resource # None => SoundResource(plans[k]) /\ \E locus, name : Mapped(plans[k], locus, name)
<1>. DEFINE plan == plans[k]
<1>1. /\ plan.decision \in keptDecisions(record) /\ legalCapabilityId(plan.decision.capabilityId)
      /\ plan = planCapability(plan.operation, plan.decision) /\ plan # None
  BY DEF PlanList
<1>2. IsDecision(plan.decision) /\ plan.decision.keep
  BY <1>1 DEF SoundRecord, keptDecisions
<1>3. InDomain(plan.decision.capabilityId)
  BY <1>1, <1>2 DEF IsDecision, legalCapabilityId, InDomain
<1>. HIDE DEF plan
<1>4. \/ plan.resource = None /\ plan.at = None /\ plan.onError = None
      \/ \E locus, name : Mapped(plan, locus, name)
  BY <1>1, PlanMaps
<1>5. ASSUME NEW locus, NEW name, Mapped(plan, locus, name) PROVE SoundResource(plan)
  <2>1. IsName(name) /\ InDomain(name)
    BY <1>2, <1>3, <1>5, NamedInDomain
  <2>. DEFINE fields == {planResourceField(p, p.name) : p \in locusLeaves(locus.locus)}
              rowErrors == IF locus.kind = "collection" THEN ListAt(plan.operation.response, locus).rowErrors ELSE None
  <2>2. /\ locus \in locusCandidates(plan.operation.response)
        /\ plan.resource = [name |-> name, fields |-> fields] /\ plan.at = locus.at
        /\ plan.onError = IF rowErrors = None THEN None ELSE planRowErrors(rowErrors, name)
        /\ name # None
    BY <1>5 DEF Mapped
  <2>3. rowErrors # None => locus.kind = "collection"
    OBVIOUS
  <2>. HIDE DEF fields, rowErrors
  <2>4. plan.resource # None /\ plan.resource.name = name
    <3>. DEFINE r == [name |-> name, fields |-> fields]
    <3>1. r = [f \in {"name", "fields"} |-> r[f]] /\ r.name = name
      OBVIOUS
    <3>. HIDE DEF r
    <3>2. IsRecord(r, {"name", "fields"})
      BY <3>1 DEF IsRecord
    <3>3. r # None
      BY <3>2 DEF NoneIsNoRecord
    <3>. QED BY <2>2, <3>1, <3>3 DEF r
  <2>5. ASSUME plan.onError # None
        PROVE  LET err == plan.onError.resource.name
               IN IsCollection(plan) /\ InDomain(err) /\ err # None /\ err # name
    <3>1. rowErrors # None /\ plan.onError = planRowErrors(rowErrors, name)
      BY <2>2, <2>5
    <3>2. plan.onError.resource.name = ErrorName(name)
      BY <3>1, ErrorParts
    <3>3. InDomain(plan.onError.resource.name) /\ plan.onError.resource.name # name
      BY <2>1, <3>2, ErrorNamed DEF ErrorName
    <3>4. plan.onError.resource.name # None
      BY <3>3, SequenceIsSomething DEF InDomain
    <3>5. plan.at # None /\ plan.at # <<>>
      BY <2>2, <2>3, <3>1, CandidateAt
    <3>. QED BY <3>3, <3>4, <3>5 DEF IsCollection
  <2>. QED BY <2>1, <2>2, <2>4, <2>5 DEF SoundResource
<1>6. plan.resource # None => SoundResource(plan) /\ \E locus, name : Mapped(plan, locus, name)
  BY <1>4, <1>5
<1>7. plan.resource = None => plan.onError = None /\ plan.at = None
  BY <1>4, <1>5 DEF SoundResource
<1>. QED BY <1>3, <1>6, <1>7 DEF plan

-----------------------------------------------------------------------------
(* What is emitted compiles. *)

(* The resources that a plan claims, each of its own name.                 *)
LEMMA ClaimsOf ==
  ASSUME NoneIsNoRecord, NEW d, NEW record, SoundRecord(record), NEW plans, PlanList(d, record, plans),
         NEW k \in 1..Len(plans), NEW r \in Claims(plans[k])
  PROVE  /\ plans[k].resource # None
         /\ r = plans[k].resource \/ (plans[k].onError # None /\ r = plans[k].onError.resource)
         /\ InDomain(r.name) /\ r.name # None
         /\ \A s \in Claims(plans[k]) : s.name = r.name => s = r
<1>. DEFINE plan == plans[k]
<1>1. /\ plan.resource = None => plan.onError = None
      /\ plan.resource # None => SoundResource(plan)
  BY PlanIsSound
<1>. HIDE DEF plan
<1>2. \A s \in Claims(plan) : s # None /\ (s = plan.resource \/ (plan.onError # None /\ s = plan.onError.resource))
  BY DEF Claims
<1>3. r \in Claims(plan)
  BY DEF plan
<1>4. plan.resource # None /\ SoundResource(plan)
  BY <1>1, <1>2, <1>3
<1>. QED BY <1>2, <1>3, <1>4 DEF SoundResource, plan

(* The definition of a name that the compiler keeps.                       *)
LastOf(model, name) ==
  LET at == {i \in 1..Len(model.resource) : model.resource[i].name = name}
  IN model.resource[CHOOSE i \in at : \A k \in at : i >= k]

(* The last definition of a resource's name says of its fields what every  *)
(* plan that claims the name says (emit.ts sameFields).                    *)
LEMMA LastDefinition ==
  ASSUME NoneIsNoRecord, NEW d, NEW record, SoundRecord(record), NEW contracts, NEW model,
         Rendered(model, d, record, contracts),
         NEW k \in 1..Len(plansOf(d, record)), NEW r \in Claims(plansOf(d, record)[k])
  PROVE  \E s : LastOf(model, r.name) = renderResourceFile(s) /\ sameFields(s, r)
<1>. DEFINE plans == plansOf(d, record)
            at == {i \in 1..Len(model.resource) : model.resource[i].name = r.name}
            top == CHOOSE i \in at : \A j \in at : i >= j
<1>1. PlanList(d, record, plans)
  BY PlansAreKept DEF SoundRecord
<1>2. at # {}
  <2>1. PICK doc \in Docs(model.resource) : doc.name = r.name
    BY DEF Rendered
  <2>. QED BY <2>1 DEF Docs
<1>3. \E i \in at : \A j \in at : i >= j
  <2>1. Len(model.resource) \in Nat
    BY DEF Rendered, IsList
  <2>. QED BY <1>2, <2>1, LatestOf
<1>4. top \in at
  BY <1>3
<1>. HIDE DEF top
<1>5. model.resource[top] \in Docs(model.resource) /\ model.resource[top].name = r.name
  BY <1>4 DEF Docs
<1>6. PICK i \in 1..Len(plans) : \E s \in Claims(plans[i]) : model.resource[top] = renderResourceFile(s)
  BY <1>5 DEF Rendered
<1>7. PICK s \in Claims(plans[i]) : model.resource[top] = renderResourceFile(s)
  BY <1>6
<1>8. s.name = r.name
  BY <1>5, <1>7 DEF renderResourceFile
<1>9. sameFields(s, r)
  <2>1. CASE i = k
    <3>1. s = r
      BY <1>1, <1>8, <2>1, ClaimsOf
    <3>. QED BY <3>1 DEF sameFields
  <2>2. CASE i # k
    BY <1>1, <1>8, <2>2 DEF PlanList, Agree
  <2>. QED BY <2>1, <2>2
<1>10. LastOf(model, r.name) = model.resource[top]
  BY DEF LastOf, top
<1>. QED BY <1>7, <1>9, <1>10

(* What two resources agree on: the names, and what is required. *)
LEMMA SameNames ==
  ASSUME NEW a, NEW b, sameFields(a, b)
  PROVE  /\ {f.name : f \in a.fields} = {f.name : f \in b.fields}
         /\ \A f \in a.fields : \E g \in b.fields : g.name = f.name /\ g.of = f.of /\ g.required = f.required
<1>. DEFINE key(f) == <<f.name, f.of, f.required>>
<1>1. {key(f) : f \in a.fields} = {key(f) : f \in b.fields}
  BY DEF sameFields
<1>2. ASSUME NEW f \in a.fields
      PROVE  \E g \in b.fields : g.name = f.name /\ g.of = f.of /\ g.required = f.required
  <2>. HIDE DEF key
  <2>1. PICK g \in b.fields : key(f) = key(g)
    BY <1>1
  <2>. QED BY <2>1 DEF key
<1>3. ASSUME NEW g \in b.fields PROVE \E f \in a.fields : g.name = f.name
  <2>. HIDE DEF key
  <2>1. PICK f \in a.fields : key(f) = key(g)
    BY <1>1
  <2>. QED BY <2>1 DEF key
<1>. QED BY <1>2, <1>3

(* What a plan claims is known to the compiler by the name that the plan   *)
(* gives it.                                                               *)
LEMMA NamesDefined ==
  ASSUME NoneIsNoRecord, NEW d, NEW record, SoundRecord(record), NEW contracts, NEW model,
         Rendered(model, d, record, contracts),
         NEW k \in 1..Len(plansOf(d, record)), NEW r \in Claims(plansOf(d, record)[k])
  PROVE  /\ \A f \in r.fields : f.name \in FieldNames(model, r.name)
         /\ r.name \in resourceIndex(model)
         /\ \A domain : resolveResourceName(r.name, domain, resourceIndex(model)) = r.name
         /\ r.name # None
<1>. DEFINE plans == plansOf(d, record)
            last == LastOf(model, r.name)
<1>1. PlanList(d, record, plans)
  BY PlansAreKept DEF SoundRecord
<1>2. InDomain(r.name) /\ r.name # None
  BY <1>1, ClaimsOf
<1>3. r.name \in resourceIndex(model)
  <2>1. PICK doc \in Docs(model.resource) : doc.name = r.name
    BY DEF Rendered
  <2>. QED BY <2>1 DEF resourceIndex
<1>4. FieldNames(model, r.name) = {f.name : f \in last.fields}
  BY DEF FieldNames, LastOf
<1>5. PICK s : last = renderResourceFile(s) /\ sameFields(s, r)
  BY LastDefinition
<1>. HIDE DEF last
<1>6. {f.name : f \in last.fields} = {f.name : f \in s.fields}
  <2>. DEFINE rendered(f) == [name |-> f.name, kind |-> "scalar", of |-> f.of, required |-> f.required]
  <2>1. last.fields = {rendered(f) : f \in s.fields}
    BY <1>5 DEF renderResourceFile
  <2>2. \A f : rendered(f).name = f.name
    OBVIOUS
  <2>. HIDE DEF rendered
  <2>. QED BY <2>1, <2>2
<1>7. FieldNames(model, r.name) = {f.name : f \in r.fields}
  BY <1>4, <1>5, <1>6, SameNames
<1>. QED BY <1>2, <1>3, <1>7 DEF resolveResourceName, InDomain

(* Every path of a mapping can be parsed. *)
PathsParse(plans) ==
  \A k \in 1..Len(plans) : plans[k].resource # None => BadPath \notin PathsRead(renderResponse(plans[k]))

(* What a rendered mapping is made of.                                     *)
LEMMA ResponseParts ==
  ASSUME NEW plan
  PROVE  LET resp == renderResponse(plan)
         IN /\ resp.resource = plan.resource.name
            /\ resp.map = FieldMap(plan.resource.fields)
            /\ resp.collection = IF IsCollection(plan) THEN Spelled(plan.at) ELSE None
            /\ IF plan.onError = None THEN resp.onError = None
               ELSE /\ resp.onError = renderOnError(plan.onError)
                    /\ resp.onError.errorResource = plan.onError.resource.name
                    /\ resp.onError.when = plan.onError.when
                    /\ resp.onError.map = FieldMap({f \in plan.onError.resource.fields : f.path # <<f.name>>})
<1>. DEFINE resource == plan.resource.name
            map == FieldMap(plan.resource.fields)
            collection == IF IsCollection(plan) THEN Spelled(plan.at) ELSE None
            emap == FieldMap({f \in plan.onError.resource.fields : f.path # <<f.name>>})
            onError == [errorResource |-> plan.onError.resource.name, when |-> plan.onError.when, map |-> emap]
            some == IF plan.onError = None THEN None ELSE renderOnError(plan.onError)
            resp == renderResponse(plan)
<1>1. resp = [resource |-> resource, map |-> map, collection |-> collection, onError |-> some]
  BY DEF renderResponse
<1>2. renderOnError(plan.onError) = onError
  BY DEF renderOnError
<1>. HIDE DEF resource, map, collection, emap, resp
<1>3. /\ onError.errorResource = plan.onError.resource.name /\ onError.when = plan.onError.when /\ onError.map = emap
  OBVIOUS
<1>. HIDE DEF onError, some
<1>4. resp.resource = resource /\ resp.map = map /\ resp.collection = collection /\ resp.onError = some
  BY <1>1
<1>5. plan.onError # None => some = onError
  BY <1>2 DEF some
<1>6. plan.onError = None => some = None
  BY DEF some
<1>. QED BY <1>2, <1>3, <1>4, <1>5, <1>6 DEF resource, map, collection, emap, resp

(* What is rendered for failed rows is not None.                           *)
LEMMA OnErrorIsSomething ==
  ASSUME NoneIsNoRecord, NEW onError PROVE renderOnError(onError) # None
<1>. DEFINE map == FieldMap({f \in onError.resource.fields : f.path # <<f.name>>})
            r == [errorResource |-> onError.resource.name, when |-> onError.when, map |-> map]
<1>1. renderOnError(onError) = r
  BY DEF renderOnError
<1>. HIDE DEF map
<1>2. r = [k \in {"errorResource", "when", "map"} |-> r[k]]
  OBVIOUS
<1>. HIDE DEF r
<1>3. IsRecord(r, {"errorResource", "when", "map"})
  BY <1>2 DEF IsRecord
<1>. QED BY <1>1, <1>3 DEF NoneIsNoRecord

(* A rendered mapping is not None.                                         *)
LEMMA ResponseIsSomething ==
  ASSUME NoneIsNoRecord, NEW plan PROVE renderResponse(plan) # None
<1>. DEFINE map == FieldMap(plan.resource.fields)
            collection == IF IsCollection(plan) THEN Spelled(plan.at) ELSE None
            some == IF plan.onError = None THEN None ELSE renderOnError(plan.onError)
            r == [resource |-> plan.resource.name, map |-> map, collection |-> collection, onError |-> some]
<1>1. renderResponse(plan) = r
  BY DEF renderResponse
<1>. HIDE DEF map, collection, some
<1>2. r = [k \in {"resource", "map", "collection", "onError"} |-> r[k]]
  OBVIOUS
<1>. HIDE DEF r
<1>3. IsRecord(r, {"resource", "map", "collection", "onError"})
  BY <1>2 DEF IsRecord
<1>. QED BY <1>1, <1>3 DEF NoneIsNoRecord

(* An entry for each field, and none besides.                              *)
LEMMA FieldMapOf ==
  ASSUME NEW fields
  PROVE  /\ \A m \in FieldMap(fields) : \E f \in fields : m.name = f.name /\ m.path = f.path /\ m.loose = FALSE
         /\ \A f \in fields : \E m \in FieldMap(fields) : m.name = f.name /\ m.path = f.path /\ m.loose = FALSE
<1>. DEFINE entry(f) == [name |-> f.name, path |-> f.path, loose |-> FALSE]
<1>1. FieldMap(fields) = {entry(f) : f \in fields}
  BY DEF FieldMap
<1>2. \A f : entry(f).name = f.name /\ entry(f).path = f.path /\ entry(f).loose = FALSE
  OBVIOUS
<1>. HIDE DEF entry
<1>. QED BY <1>1, <1>2

(* The mapping that a plan renders is one the validator has nothing to say *)
(* against (validate.ts): its resources are defined with the fields it     *)
(* maps, its paths parse, and it fills the one output field.               *)
LEMMA MappingAccepted ==
  ASSUME NoneIsNoRecord, NEW d, NEW record, SoundRecord(record), NEW contracts, NEW model,
         Rendered(model, d, record, contracts), PathsParse(plansOf(d, record)),
         NEW k \in 1..Len(plansOf(d, record))
  PROVE  LET plan == plansOf(d, record)[k]
             b == renderBindingFile(d, record, plan, contracts)
             cap == renderCapabilityFile(record, plan)
         IN ~ResponseFaulty(b, cap, model) /\ ~ExtractFaulty(b, cap) /\ ~UnboundOutput(b, cap, model)
<1>. DEFINE plan == plansOf(d, record)[k]
            b == renderBindingFile(d, record, plan, contracts)
            cap == renderCapabilityFile(record, plan)
            resp == renderResponse(plan)
            id == plan.decision.capabilityId
<1>. SUFFICES ~ResponseFaulty(b, cap, model) /\ ~ExtractFaulty(b, cap) /\ ~UnboundOutput(b, cap, model)
  OBVIOUS
<1>0. /\ resp.resource = plan.resource.name
      /\ resp.map = FieldMap(plan.resource.fields)
      /\ resp.collection = IF IsCollection(plan) THEN Spelled(plan.at) ELSE None
      /\ IF plan.onError = None THEN resp.onError = None
         ELSE /\ resp.onError = renderOnError(plan.onError)
              /\ resp.onError.errorResource = plan.onError.resource.name
              /\ resp.onError.map = FieldMap({f \in plan.onError.resource.fields : f.path # <<f.name>>})
  BY ResponseParts
<1>1. PlanList(d, record, plansOf(d, record))
  BY PlansAreKept DEF SoundRecord
<1>2. /\ b.extract = None
      /\ b.response = IF plan.resource = None THEN None ELSE resp
  BY DEF renderBindingFile
<1>3. /\ plan.resource = None => plan.onError = None
      /\ plan.resource # None => SoundResource(plan)
  BY <1>1, PlanIsSound
<1>4. \A r \in Claims(plan) :
        /\ \A f \in r.fields : f.name \in FieldNames(model, r.name)
        /\ \A domain : resolveResourceName(r.name, domain, resourceIndex(model)) = r.name
        /\ r.name # None
  <2>1. TAKE r \in Claims(plansOf(d, record)[k])
  <2>2. \A f \in r.fields : f.name \in FieldNames(model, r.name)
    BY NamesDefined
  <2>3. r.name # None
    BY NamesDefined
  <2>4. \A domain : resolveResourceName(r.name, domain, resourceIndex(model)) = r.name
    BY NamesDefined
  <2>. QED BY <2>2, <2>3, <2>4
<1>5. cap.id = id
  BY DEF renderCapabilityFile
<1>6. plan.resource # None => BadPath \notin PathsRead(resp)
  BY DEF PathsParse
<1>. DEFINE out == [name |-> outputFieldName(plan.resource.name, IsCollection(plan)),
                    kind |-> IF IsCollection(plan) THEN "collection" ELSE "resource",
                    of |-> plan.resource.name, required |-> TRUE]
<1>7. plan.resource # None => cap.output = {out}
  BY DEF renderCapabilityFile
<1>8. Names(out) /\ out.of = plan.resource.name
  BY DEF Names
<1>. HIDE DEF plan, b, cap, resp, out
<1>9. CASE plan.resource = None
  BY <1>2, <1>9 DEF ResponseFaulty, ExtractFaulty, UnboundOutput
<1>10. CASE plan.resource # None
  <2>. DEFINE name == plan.resource.name
              canonical == resolveResourceName(resp.resource, domainOf(cap.id), resourceIndex(model))
  <2>1. b.response = resp /\ resp # None
    BY <1>2, <1>10, ResponseIsSomething DEF resp
  <2>2. plan.resource \in Claims(plan) /\ SoundResource(plan)
    BY <1>3, <1>10 DEF Claims
  <2>3. resp.resource = name /\ canonical = name /\ name # None
    BY <1>0, <1>4, <2>2
  <2>. HIDE DEF canonical
  <2>4. ~MapFaulty(resp.map, model, name)
    <3>1. resp.map = FieldMap(plan.resource.fields)
      BY <1>0
    <3>2. ASSUME NEW m \in resp.map PROVE m.name \in FieldNames(model, name) /\ parsePath(m.path)
      <4>1. m.path # BadPath
        BY <1>6, <1>10 DEF PathsRead
      <4>2. \E f \in plan.resource.fields : m.name = f.name
        <5>1. m \in FieldMap(plan.resource.fields)
          BY <3>1
        <5>. QED BY <5>1, FieldMapOf
      <4>. QED BY <1>4, <2>2, <4>1, <4>2 DEF parsePath
    <3>. QED BY <3>2 DEF MapFaulty
  <2>5. resp.collection # None => parsePath(resp.collection)
    BY <1>6, <1>10 DEF PathsRead, parsePath
  <2>6. ~OnErrorFaulty(resp, cap.id, model, name)
    <3>1. CASE plan.onError = None
      BY <1>0, <3>1 DEF OnErrorFaulty
    <3>2. CASE plan.onError # None
      <4>. DEFINE error == plan.onError.resource
                  err == resolveResourceName(resp.onError.errorResource, domainOf(cap.id), resourceIndex(model))
      <4>1. /\ resp.onError = renderOnError(plan.onError)
            /\ resp.onError.errorResource = error.name
            /\ resp.onError.map = FieldMap({f \in error.fields : f.path # <<f.name>>})
            /\ resp.collection = IF IsCollection(plan) THEN Spelled(plan.at) ELSE None
        BY <1>0, <3>2
      <4>2. /\ IsCollection(plan) /\ error.name # None /\ error.name # name
        BY <2>2, <3>2 DEF SoundResource
      <4>3. error \in Claims(plan) \/ error = None
        BY <3>2 DEF Claims
      <4>4. error # None
        <5>1. PICK locus, nm : Mapped(plan, locus, nm)
          BY <1>1, <1>10, PlanIsSound DEF plan
        <5>2. PICK e : plan.onError = planRowErrors(e, nm)
          BY <3>2, <5>1 DEF Mapped
        <5>. QED BY <5>2, ErrorIsSomething
      <4>5. /\ \A f \in error.fields : f.name \in FieldNames(model, error.name)
            /\ err = error.name
        BY <1>4, <4>1, <4>3, <4>4
      <4>. HIDE DEF error, err
      <4>6. resp.onError # None
        BY <4>1, OnErrorIsSomething
      <4>7. ~MapFaulty(resp.onError.map, model, error.name)
        <5>1. ASSUME NEW m \in resp.onError.map PROVE m.name \in FieldNames(model, error.name) /\ parsePath(m.path)
          <6>1. m.path # BadPath
            BY <1>6, <1>10, <4>6 DEF PathsRead
          <6>2. \E f \in error.fields : m.name = f.name
            <7>. DEFINE fields == {f \in error.fields : f.path # <<f.name>>}
            <7>1. m \in FieldMap(fields)
              BY <4>1
            <7>2. fields \subseteq error.fields
              OBVIOUS
            <7>. HIDE DEF fields
            <7>. QED BY <7>1, <7>2, FieldMapOf
          <6>. QED BY <4>5, <6>1, <6>2 DEF parsePath
        <5>. QED BY <5>1 DEF MapFaulty
      <4>8. resp.collection # None
        <5>1. IsSequence(plan.at)
          <6>1. PICK locus, nm : Mapped(plan, locus, nm)
            BY <1>1, <1>10, PlanIsSound DEF plan
          <6>. QED BY <6>1, CandidateAt DEF Mapped
        <5>2. IsSequence(BadPath)
          <6>1. BadPath \in Seq({"("})
            BY DEF BadPath
          <6>. QED BY <6>1, SequenceOfItsOwn
        <5>3. IsSequence(Spelled(plan.at))
          BY <5>1, <5>2 DEF Spelled
        <5>. QED BY <4>1, <4>2, <5>3, SequenceIsSomething
      <4>9. parsePath(resp.onError.when.path)
        BY <1>6, <1>10, <4>6 DEF PathsRead, parsePath
      <4>10. resp.collection # None /\ err = error.name /\ error.name \notin {None, name}
        BY <4>2, <4>5, <4>8 DEF error
      <4>. QED BY <4>7, <4>9, <4>10 DEF OnErrorFaulty, err
    <3>. QED BY <3>1, <3>2
  <2>7. TargetFields(cap, model, name) = {out.name}
    <3>1. resolveResourceName(out.of, domainOf(cap.id), resourceIndex(model)) = name
      BY <1>4, <1>8, <2>2
    <3>. QED BY <1>7, <1>8, <1>10, <3>1 DEF TargetFields
  <2>8. ~ResponseFaulty(b, cap, model)
    BY <2>1, <2>3, <2>4, <2>5, <2>6, <2>7 DEF ResponseFaulty, ExactlyOne, canonical
  <2>9. ~UnboundOutput(b, cap, model)
    <3>1. {f.name : f \in cap.output} = {out.name}
      BY <1>7, <1>10
    <3>. QED BY <1>2, <2>1, <2>3, <2>7, <3>1 DEF UnboundOutput, canonical
  <2>. QED BY <1>2, <2>8, <2>9 DEF ExtractFaulty
<1>. QED BY <1>9, <1>10

(* An id as the grammar of ids has it: a dot, and no sign that an          *)
(* advertised name has for one.                                            *)
LEMMA NothingCollides ==
  ASSUME NEW tools, Len(tools) \in Nat,
         \A i \in 1..Len(tools) : InDomain(tools[i].id) /\ "_" \notin Parts(tools[i].id)
  PROVE  toolNameCollisions(tools) = {}
<1>1. ASSUME NEW i \in 1..Len(tools)
      PROVE  LET id == tools[i].id
             IN /\ Len(id) \in Nat /\ id = [k \in 1..Len(id) |-> id[k]]
                /\ \E k \in 1..Len(id) : id[k] = "."
                /\ \A k \in 1..Len(id) : id[k] # "_"
  <2>. DEFINE id == tools[i].id
  <2>1. InDomain(id) /\ "_" \notin Parts(id)
    OBVIOUS
  <2>. HIDE DEF id
  <2>3. Len(id) \in Nat /\ id = [k \in 1..Len(id) |-> id[k]]
    BY <2>1, SequenceIsList DEF InDomain
  <2>4. \E k \in 1..Len(id) : id[k] = "."
    BY <2>1 DEF InDomain, Dots, Dot
  <2>5. \A k \in 1..Len(id) : id[k] # "_"
    BY <2>1 DEF Parts, Dot
  <2>. QED BY <2>3, <2>4, <2>5 DEF id
<1>2. ASSUME NEW i \in 1..Len(tools), NEW k \in 1..Len(tools), toolName(tools[i].id) = tools[k].id PROVE FALSE
  <2>. DEFINE a == tools[i].id
              b == tools[k].id
  <2>1. PICK m \in 1..Len(b) : b[m] = "."
    BY <1>1
  <2>2. b = [j \in 1..Len(a) |-> IF a[j] = "." THEN "_" ELSE a[j]]
    BY <1>2 DEF toolName
  <2>3. DOMAIN b = 1..Len(b)
    BY <1>1
  <2>. HIDE DEF a, b
  <2>4. m \in 1..Len(a) /\ b[m] = IF a[m] = "." THEN "_" ELSE a[m]
    BY <2>2, <2>3
  <2>. QED BY <2>1, <2>4
<1>3. ASSUME NEW i \in 1..Len(tools), NEW k \in 1..Len(tools), toolName(tools[i].id) = toolName(tools[k].id)
      PROVE  tools[i].id = tools[k].id
  <2>. DEFINE a == tools[i].id
              b == tools[k].id
              an == [j \in 1..Len(a) |-> IF a[j] = "." THEN "_" ELSE a[j]]
              bn == [j \in 1..Len(b) |-> IF b[j] = "." THEN "_" ELSE b[j]]
  <2>1. an = bn
    BY <1>3 DEF toolName
  <2>2. /\ Len(a) \in Nat /\ a = [j \in 1..Len(a) |-> a[j]] /\ \A j \in 1..Len(a) : a[j] # "_"
        /\ Len(b) \in Nat /\ b = [j \in 1..Len(b) |-> b[j]] /\ \A j \in 1..Len(b) : b[j] # "_"
    BY <1>1
  <2>. HIDE DEF a, b
  <2>3. DOMAIN an = 1..Len(a) /\ DOMAIN bn = 1..Len(b)
    OBVIOUS
  <2>4. 1..Len(a) = 1..Len(b)
    BY <2>1, <2>3
  <2>5. \A j \in 1..Len(a) : an[j] = bn[j]
    BY <2>1
  <2>6. \A j \in 1..Len(a) : a[j] = b[j]
    BY <2>2, <2>4, <2>5
  <2>7. a = b
    BY <2>2, <2>4, <2>6
  <2>. QED BY <2>7 DEF a, b
<1>4. \A name : ~Contested(tools, name, Len(tools))
  BY <1>2, <1>3 DEF Contested, Bears
<1>. QED BY <1>4, IndexOf DEF toolNameCollisions

(* What a plan renders is accepted by every rule of the validator.         *)
LEMMA EmissionAccepted ==
  ASSUME NoneIsNoRecord, NEW d, NEW record, SoundRecord(record), NEW contracts, NEW model,
         Rendered(model, d, record, contracts), PathsParse(plansOf(d, record))
  PROVE  validateSemantics(model) = {}
<1>. DEFINE plans == plansOf(d, record)
            cap(k) == renderCapabilityFile(record, plans[k])
            bind(k) == renderBindingFile(d, record, plans[k], contracts)
            id(k) == plans[k].decision.capabilityId
<1>1. PlanList(d, record, plans)
  BY PlansAreKept DEF SoundRecord
<1>2. /\ Docs(model.capability) = {cap(k) : k \in 1..Len(plans)}
      /\ Docs(model.binding) = {bind(k) : k \in 1..Len(plans)}
      /\ model.capabilities = renderCapabilitiesFile(record, plans)
  BY DEF Rendered
<1>3. ASSUME NEW k \in 1..Len(plans)
      PROVE  /\ cap(k).id = id(k) /\ cap(k).provider = providerId(record)
             /\ bind(k).capabilityId = id(k) /\ bind(k).connector.type = "rest"
             /\ \A f \in cap(k).input : ~Names(f)
             /\ \A f \in cap(k).output : plans[k].resource # None /\ f.of = plans[k].resource.name
  <2>1. cap(k).id = id(k) /\ cap(k).provider = providerId(record)
    BY DEF renderCapabilityFile
  <2>2. bind(k).capabilityId = id(k) /\ bind(k).connector.type = "rest"
    BY DEF renderBindingFile
  <2>3. \A f \in cap(k).input : ~Names(f)
    <3>1. cap(k).input = {planInput(f) : f \in plans[k].operation.input}
      BY DEF renderCapabilityFile
    <3>2. \A f : ~Names(planInput(f))
      BY DEF planInput, Names
    <3>. HIDE DEF cap
    <3>. QED BY <3>1, <3>2
  <2>4. \A f \in cap(k).output : plans[k].resource # None /\ f.of = plans[k].resource.name
    <3>. DEFINE out == [name |-> outputFieldName(plans[k].resource.name, IsCollection(plans[k])),
                        kind |-> IF IsCollection(plans[k]) THEN "collection" ELSE "resource",
                        of |-> plans[k].resource.name, required |-> TRUE]
    <3>1. cap(k).output = IF plans[k].resource = None THEN {} ELSE {out}
      BY DEF renderCapabilityFile
    <3>2. out.of = plans[k].resource.name
      OBVIOUS
    <3>. HIDE DEF out, cap
    <3>. QED BY <3>1, <3>2
  <2>. QED BY <2>1, <2>2, <2>3, <2>4
<1>. HIDE DEF plans, cap, bind
<1>4. ~DuplicateIds(model.capability) /\ ~DuplicateIds(model.policy)
  BY DEF Rendered
<1>5. ~HasFaultyProvider(model)
  <2>1. model.capabilities.providers = {providerId(record)}
    BY <1>2 DEF renderCapabilitiesFile
  <2>. QED BY <1>2, <1>3, <2>1 DEF HasFaultyProvider, SoundRecord
<1>6. ~DeclarationsDiffer(model)
  <2>1. model.capabilities.capabilities = {id(k) : k \in 1..Len(plans)}
    BY <1>2 DEF renderCapabilitiesFile
  <2>2. {c.id : c \in Docs(model.capability)} = {id(k) : k \in 1..Len(plans)}
    <3>1. \A k \in 1..Len(plans) : cap(k).id = id(k)
      BY <1>3
    <3>. HIDE DEF id
    <3>. QED BY <1>2, <3>1
  <2>. QED BY <2>1, <2>2 DEF DeclarationsDiffer
<1>7. \A k \in 1..Len(plans) : Defines(model, id(k))
  BY <1>2, <1>3 DEF Defines
<1>8. ~BindsNothing(model) /\ ~NotImplemented(model) /\ ~SqlFaulty(model)
  BY <1>2, <1>3, <1>7 DEF BindsNothing, NotImplemented, SqlFaulty
<1>9. ~UnknownResource(model)
  <2>1. ASSUME NEW c \in Docs(model.capability) PROVE ~DanglingFields(c.input \cup c.output, c.id, model)
    <3>1. PICK k \in 1..Len(plans) : c = cap(k)
      BY <1>2
    <3>2. ASSUME NEW f \in c.output PROVE Resolves(f.of, c.id, model)
      <4>1. plans[k].resource # None /\ f.of = plans[k].resource.name
        BY <1>3, <3>1, <3>2
      <4>2. plans[k].resource \in Claims(plans[k])
        BY <4>1 DEF Claims
      <4>. DEFINE r == plans[k].resource
      <4>3. \A domain : resolveResourceName(r.name, domain, resourceIndex(model)) = r.name
        BY <4>2, NamesDefined DEF plans
      <4>4. r.name # None
        BY <4>2, NamesDefined DEF plans
      <4>. QED BY <4>1, <4>3, <4>4 DEF Resolves
    <3>. QED BY <1>3, <3>1, <3>2 DEF DanglingFields
  <2>2. ASSUME NEW r \in Docs(model.resource) PROVE ~DanglingFields(r.fields, r.name, model)
    <3>1. PICK s : r = renderResourceFile(s)
      BY DEF Rendered
    <3>. DEFINE rendered(f) == [name |-> f.name, kind |-> "scalar", of |-> f.of, required |-> f.required]
    <3>2. r.fields = {rendered(f) : f \in s.fields}
      BY <3>1 DEF renderResourceFile
    <3>3. \A f : ~Names(rendered(f))
      BY DEF Names
    <3>. HIDE DEF rendered
    <3>. QED BY <3>2, <3>3 DEF DanglingFields
  <2>. QED BY <2>1, <2>2 DEF UnknownResource
<1>10. ~OutputFaulty(model)
  <2>1. ASSUME NEW b \in Docs(model.binding)
        PROVE  LET c == ById(model, b.capabilityId)
               IN ~ResponseFaulty(b, c, model) /\ ~ExtractFaulty(b, c) /\ ~UnboundOutput(b, c, model)
    <3>1. PICK k \in 1..Len(plans) : b = bind(k)
      BY <1>2
    <3>. DEFINE at == {i \in 1..Len(model.capability) : model.capability[i].id = id(k)}
                first == CHOOSE i \in at : \A j \in at : i <= j
    <3>2. ById(model, b.capabilityId) = model.capability[first]
      BY <1>3, <3>1 DEF ById
    <3>3. first \in at
      <4>1. at # {}
        BY <1>7 DEF Defines, Docs
      <4>2. at \in SUBSET Nat
        BY DEF Rendered, IsList
      <4>. QED BY <4>1, <4>2, LeastOf
    <3>. HIDE DEF first
    <3>4. model.capability[first] \in Docs(model.capability) /\ model.capability[first].id = id(k)
      BY <3>3 DEF Docs
    <3>5. PICK j \in 1..Len(plans) : model.capability[first] = cap(j)
      BY <1>2, <3>4
    <3>6. j = k
      BY <1>1, <1>3, <3>4, <3>5 DEF PlanList
    <3>7. ~ResponseFaulty(bind(k), cap(k), model) /\ ~ExtractFaulty(bind(k), cap(k)) /\ ~UnboundOutput(bind(k), cap(k), model)
      BY MappingAccepted DEF plans, bind, cap
    <3>. QED BY <3>1, <3>2, <3>5, <3>6, <3>7
  <2>. QED BY <2>1 DEF OutputFaulty
<1>11. ~PolicyFaulty(model)
  BY DEF PolicyFaulty, Rendered
<1>. QED BY <1>4, <1>5, <1>6, <1>8, <1>9, <1>10, <1>11, NothingFound

(* What is emitted compiles, where every path of its mappings can be       *)
(* parsed: for every draft and every record whose words a grammar let      *)
(* pass.                                                                   *)
THEOREM EmissionCompiles ==
  ASSUME NoneIsNoRecord, TornIsNoRecord, NEW d, NEW record, SoundRecord(record), NEW contracts,
         emit(d, record, contracts) # NoFiles, PathsParse(plansOf(d, record))
  PROVE  compileManifest(emit(d, record, contracts))
<1>. DEFINE plans == plansOf(d, record)
            disk == toDisk(emit(d, record, contracts))
            model == load(disk)
            tools == compile(model).tools
<1>1. model.ok /\ Rendered(model, d, record, contracts)
  BY LoadedEmission DEF SoundRecord
<1>2. validateSemantics(model) = {}
  BY <1>1, EmissionAccepted
<1>3. Accepted(disk)
  BY <1>1, <1>2 DEF Accepted
<1>4. PlanList(d, record, plans)
  BY PlansAreKept DEF SoundRecord
<1>. HIDE DEF disk, model
<1>5. /\ Len(model.capability) \in Nat
      /\ tools = [i \in 1..Len(model.capability) |-> compileTool(model.capability[i], model)]
  BY <1>1 DEF Rendered, IsList, compile
<1>6. Len(tools) = Len(model.capability)
  BY <1>5, ListLength
<1>. HIDE DEF tools
<1>7. ASSUME NEW i \in 1..Len(tools) PROVE InDomain(tools[i].id) /\ "_" \notin Parts(tools[i].id)
  <2>1. tools[i].id = model.capability[i].id /\ model.capability[i] \in Docs(model.capability)
    BY <1>5, <1>6 DEF compileTool, Docs
  <2>2. PICK k \in 1..Len(plans) : model.capability[i] = renderCapabilityFile(record, plans[k])
    BY <1>1, <2>1 DEF Rendered
  <2>3. tools[i].id = plans[k].decision.capabilityId
    BY <2>1, <2>2 DEF renderCapabilityFile
  <2>4. InDomain(plans[k].decision.capabilityId)
    BY <1>4, PlanIsSound
  <2>5. Parts(plans[k].decision.capabilityId) \cap BadWords = {}
    BY <1>4 DEF PlanList, legalCapabilityId
  <2>. QED BY <2>3, <2>4, <2>5, WordAssumption
<1>8. toolNameCollisions(tools) = {}
  BY <1>5, <1>6, <1>7, NothingCollides
<1>. QED BY <1>3, <1>8 DEF compileManifest, tools, model, disk

-----------------------------------------------------------------------------
(* What is compiled of an emission. *)

(* What the compiler makes of the mapping that a plan renders: the names   *)
(* are canonical as they are, the paths are kept.                          *)
MapsAs(resp, plan) ==
  /\ plan.resource # None
  /\ resp.resource = plan.resource.name
  /\ resp.fields = FieldMap(plan.resource.fields)
  /\ resp.collection = IF IsCollection(plan) THEN Spelled(plan.at) ELSE None
  /\ IF plan.onError = None THEN resp.onError = None
     ELSE /\ resp.onError # None
          /\ resp.onError.errorResource = plan.onError.resource.name
          /\ resp.onError.when = plan.onError.when
          /\ resp.onError.map = FieldMap({f \in plan.onError.resource.fields : f.path # <<f.name>>})

(* A resource of the artifact asks for what the plan's resource asks for.  *)
AsksFor(resources, r) ==
  /\ r.name \in DOMAIN resources
  /\ \A f \in resources[r.name] : \E g \in r.fields : g.name = f.name /\ g.required = f.required
  /\ \A g \in r.fields : \E f \in resources[r.name] : f.name = g.name /\ f.required = g.required

(* The compiler leaves out a mapping or keeps what it says (compile.ts     *)
(* lowerResponse).                                                         *)
LEMMA LoweredMapping ==
  ASSUME NEW plan, NEW owner, NEW output, NEW model, plan.resource # None, plan.resource.name # None,
         resolveResourceName(plan.resource.name, domainOf(owner), resourceIndex(model)) = plan.resource.name,
         plan.onError # None =>
           /\ renderOnError(plan.onError) # None /\ plan.onError.resource.name # None
           /\ resolveResourceName(plan.onError.resource.name, domainOf(owner), resourceIndex(model))
                = plan.onError.resource.name
  PROVE  LET resp == lowerResponse(renderResponse(plan), owner, output, model)
         IN resp = None \/ MapsAs(resp, plan)
<1>. DEFINE raw == renderResponse(plan)
            resp == lowerResponse(raw, owner, output, model)
            onError == lowerOnError(raw.onError, owner, model)
<1>1. /\ raw.resource = plan.resource.name
      /\ raw.map = FieldMap(plan.resource.fields)
      /\ raw.collection = IF IsCollection(plan) THEN Spelled(plan.at) ELSE None
      /\ IF plan.onError = None THEN raw.onError = None
         ELSE /\ raw.onError = renderOnError(plan.onError)
              /\ raw.onError.errorResource = plan.onError.resource.name
              /\ raw.onError.when = plan.onError.when
              /\ raw.onError.map = FieldMap({f \in plan.onError.resource.fields : f.path # <<f.name>>})
  BY ResponseParts
<1>. HIDE DEF raw
<1>2. Canon(raw.resource, owner, model) = plan.resource.name
  BY <1>1 DEF Canon
<1>3. IF plan.onError = None THEN onError = None
      ELSE /\ onError # None
           /\ onError.errorResource = plan.onError.resource.name
           /\ onError.when = plan.onError.when
           /\ onError.map = FieldMap({f \in plan.onError.resource.fields : f.path # <<f.name>>})
  <2>1. CASE plan.onError = None
    BY <1>1, <2>1 DEF lowerOnError
  <2>2. CASE plan.onError # None
    <3>. DEFINE old == renderOnError(plan.onError)
    <3>1. Canon(plan.onError.resource.name, owner, model) = plan.onError.resource.name
      BY <2>2 DEF Canon
    <3>2. raw.onError = old /\ old # None /\ old.errorResource = plan.onError.resource.name
      BY <1>1, <2>2
    <3>3. onError = [old EXCEPT !.errorResource = Canon(@, owner, model)]
      BY <3>2 DEF lowerOnError
    <3>4. onError = [old EXCEPT !.errorResource = plan.onError.resource.name]
      BY <3>1, <3>2, <3>3
    <3>. DEFINE map == FieldMap({f \in plan.onError.resource.fields : f.path # <<f.name>>})
    <3>5. old = [errorResource |-> plan.onError.resource.name, when |-> plan.onError.when, map |-> map]
      BY DEF renderOnError
    <3>. HIDE DEF old, onError, map
    <3>6. onError = old
      BY <3>4, <3>5
    <3>. QED BY <1>1, <2>2, <3>2, <3>6 DEF map
  <2>. QED BY <2>1, <2>2
<1>. HIDE DEF onError
<1>4. ASSUME resp # None PROVE MapsAs(resp, plan)
  <2>. DEFINE field == CHOOSE f \in outputFieldFor(plan.resource.name, output) : TRUE
  <2>1. resp = [resource |-> plan.resource.name, field |-> field,
                collection |-> raw.collection, fields |-> raw.map, onError |-> onError]
    BY <1>2, <1>4 DEF lowerResponse, onError
  <2>. HIDE DEF field, resp
  <2>2. resp.resource = plan.resource.name /\ resp.collection = raw.collection /\ resp.fields = raw.map /\ resp.onError = onError
    BY <2>1
  <2>. QED BY <1>1, <1>3, <2>2 DEF MapsAs
<1>. QED BY <1>4 DEF resp, raw

(* Each resource of the artifact asks for what the plans say.              *)
LEMMA ResourcesAsk ==
  ASSUME NoneIsNoRecord, NEW d, NEW record, SoundRecord(record), NEW contracts, NEW model,
         Rendered(model, d, record, contracts),
         NEW k \in 1..Len(plansOf(d, record)), NEW r \in Claims(plansOf(d, record)[k])
  PROVE  AsksFor(compile(model).resources, r)
<1>. DEFINE resources == compile(model).resources
            lower(f) == [name |-> f.name, required |-> f.required, type |-> lowerType(f, r.name, model)]
            rendered(f) == [name |-> f.name, kind |-> "scalar", of |-> f.of, required |-> f.required]
<1>1. r.name \in resourceIndex(model)
  BY NamesDefined
<1>2. r.name \in DOMAIN resources /\ resources[r.name] = lowerFields(LastOf(model, r.name).fields, r.name, model)
  BY <1>1 DEF compile, LastOf
<1>3. PICK s : LastOf(model, r.name) = renderResourceFile(s) /\ sameFields(s, r)
  BY LastDefinition
<1>4. LastOf(model, r.name).fields = {rendered(f) : f \in s.fields}
  BY <1>3 DEF renderResourceFile
<1>5. resources[r.name] = {lower(f) : f \in LastOf(model, r.name).fields}
  BY <1>2 DEF lowerFields
<1>6. \A f : /\ lower(f).name = f.name /\ lower(f).required = f.required
             /\ rendered(f).name = f.name /\ rendered(f).required = f.required
  OBVIOUS
<1>7. /\ \A f \in s.fields : \E g \in r.fields : g.name = f.name /\ g.required = f.required
      /\ \A g \in r.fields : \E f \in s.fields : f.name = g.name /\ f.required = g.required
  <2>1. sameFields(r, s)
    BY <1>3 DEF sameFields
  <2>. QED BY <1>3, <2>1, SameNames
<1>. HIDE DEF resources, lower, rendered
<1>8. ASSUME NEW f \in resources[r.name] PROVE \E g \in r.fields : g.name = f.name /\ g.required = f.required
  <2>1. PICK h \in s.fields : f = lower(rendered(h))
    BY <1>4, <1>5
  <2>. QED BY <1>6, <1>7, <2>1
<1>9. ASSUME NEW g \in r.fields PROVE \E f \in resources[r.name] : f.name = g.name /\ f.required = g.required
  <2>1. PICK h \in s.fields : h.name = g.name /\ h.required = g.required
    BY <1>7
  <2>2. lower(rendered(h)) \in resources[r.name]
    BY <1>4, <1>5
  <2>. QED BY <1>6, <2>1, <2>2
<1>. QED BY <1>2, <1>8, <1>9 DEF AsksFor, resources

(* A tool's mapping is the one that its plan renders. *)
LEMMA ToolMaps ==
  ASSUME NoneIsNoRecord, NEW d, NEW record, SoundRecord(record), NEW contracts, NEW model,
         Rendered(model, d, record, contracts), NEW t \in Docs(compile(model).tools),
         NEW k \in 1..Len(plansOf(d, record)), plansOf(d, record)[k].decision.capabilityId = t.id
  PROVE  t.extract = None /\ (t.response = None \/ MapsAs(t.response, plansOf(d, record)[k]))
<1>. DEFINE plans == plansOf(d, record)
            plan == plans[k]
            n == Len(model.capability)
            tools == compile(model).tools
            own == renderBindingFile(d, record, plan, contracts)
<1>1. PlanList(d, record, plans)
  BY PlansAreKept DEF SoundRecord
<1>2. n \in Nat /\ tools = [i \in 1..n |-> compileTool(model.capability[i], model)]
  BY DEF Rendered, IsList, compile
<1>3. Len(tools) = n
  BY <1>2, ListLength
<1>. HIDE DEF tools
<1>4. PICK i \in 1..n : t = compileTool(model.capability[i], model)
  BY <1>2, <1>3 DEF Docs, tools
<1>. DEFINE c == model.capability[i]
            response == LastPart(model, c.id, LAMBDA b : b.response)
            output == lowerFields(c.output, c.id, model)
<1>5. /\ t.id = c.id
      /\ t.extract = LastPart(model, c.id, LAMBDA b : b.extract)
      /\ t.response = IF response = None THEN None ELSE lowerResponse(response, c.id, output, model)
  BY <1>4 DEF compileTool
<1>6. ASSUME NEW b \in Docs(model.binding), b.capabilityId = c.id PROVE b = own
  <2>1. PICK j \in 1..Len(plans) : b = renderBindingFile(d, record, plans[j], contracts)
    BY DEF Rendered
  <2>2. b.capabilityId = plans[j].decision.capabilityId
    BY <2>1 DEF renderBindingFile
  <2>3. j = k
    BY <1>1, <1>5, <1>6, <2>2 DEF PlanList
  <2>. QED BY <2>1, <2>3
<1>7. IF response = None THEN TRUE ELSE \E b \in Docs(model.binding) : b.capabilityId = c.id /\ b.response = response
  BY LastResponse DEF Rendered
<1>8. t.extract = None
  <2>. DEFINE extract == LastPart(model, c.id, LAMBDA b : b.extract)
  <2>1. IF extract = None THEN TRUE ELSE \E b \in Docs(model.binding) : b.capabilityId = c.id /\ b.extract = extract
    BY LastExtract DEF Rendered
  <2>2. own.extract = None
    BY DEF renderBindingFile
  <2>. HIDE DEF extract, own, c
  <2>3. extract = None
    BY <1>6, <2>1, <2>2
  <2>. QED BY <1>5, <2>3 DEF extract, c
<1>. HIDE DEF response, output
<1>9. ASSUME t.response # None PROVE MapsAs(t.response, plan)
  <2>1. own.response = IF plan.resource = None THEN None ELSE renderResponse(plan)
    BY DEF renderBindingFile
  <2>. HIDE DEF own, plan, c
  <2>2. /\ response # None /\ response = own.response
        /\ t.response = lowerResponse(response, c.id, output, model)
    BY <1>5, <1>6, <1>7, <1>9
  <2>3. plan.resource # None /\ response = renderResponse(plan)
    BY <2>1, <2>2
  <2>4. SoundResource(plan)
    BY <1>1, <2>3, PlanIsSound DEF plan
  <2>5. ASSUME NEW r \in Claims(plan)
        PROVE  /\ resolveResourceName(r.name, domainOf(c.id), resourceIndex(model)) = r.name
               /\ r.name # None
    <3>1. \A domain : resolveResourceName(r.name, domain, resourceIndex(model)) = r.name
      BY <2>5, NamesDefined DEF plan, plans
    <3>2. r.name # None
      BY <2>5, NamesDefined DEF plan, plans
    <3>. QED BY <3>1, <3>2
  <2>6. plan.resource \in Claims(plan)
    BY <2>3 DEF Claims
  <2>7. ASSUME plan.onError # None
        PROVE  renderOnError(plan.onError) # None /\ plan.onError.resource \in Claims(plan)
    <3>1. PICK locus, nm : Mapped(plan, locus, nm)
      BY <1>1, <2>3, PlanIsSound DEF plan
    <3>2. PICK e : plan.onError = planRowErrors(e, nm)
      BY <2>7, <3>1 DEF Mapped
    <3>3. plan.onError.resource # None
      BY <3>2, ErrorIsSomething
    <3>. QED BY <2>7, <3>3, OnErrorIsSomething DEF Claims
  <2>8. lowerResponse(renderResponse(plan), c.id, output, model) = None
        \/ MapsAs(lowerResponse(renderResponse(plan), c.id, output, model), plan)
    BY <2>3, <2>5, <2>6, <2>7, LoweredMapping
  <2>. QED BY <1>9, <2>2, <2>3, <2>8
<1>. QED BY <1>8, <1>9

-----------------------------------------------------------------------------
(* What the source allows. *)

(* A one-step path has at most one match, the value at that key. *)
LEMMA OneMatch ==
  ASSUME NEW json, IsBody(json), NEW q, IsSequence(q), NEW name, name # AnyItem
  PROVE  firstMatch(json, q, <<name>>) =
           IF Append(q, name) \in DOMAIN json THEN json[Append(q, name)] ELSE None
<1>. DEFINE at == Append(q, name)
            n == Len(q)
            hits == evalPath(json, q, <<name>>)
<1>1. n \in Nat /\ q = [i \in 1..n |-> q[i]]
  BY SequenceIsList
<1>2. Len(<<name>>) = 1 /\ <<name>>[1] = name
  OBVIOUS
<1>3. IsSequence(at) /\ Len(at) = n + 1 /\ at[n + 1] = name /\ \A i \in 1..n : at[i] = q[i]
  <2>1. q \in Seq(Docs(q))
    BY DEF IsSequence
  <2>2. q \in Seq(Docs(q) \cup {name})
    <3>. DEFINE S == Docs(q)
    <3>. HIDE DEF S
    <3>1. q \in Seq(S)
      BY <2>1 DEF S
    <3>2. q \in Seq(S \cup {name})
      BY <3>1
    <3>. QED BY <3>2 DEF S
  <2>. DEFINE T == Docs(q) \cup {name}
  <2>3. q \in Seq(T) /\ name \in T
    BY <2>2
  <2>. HIDE DEF T
  <2>4. at \in Seq(T) /\ Len(at) = n + 1 /\ at[n + 1] = name /\ \A i \in 1..n : at[i] = q[i]
    BY <2>3
  <2>. QED BY <2>4, SequenceOfItsOwn
<1>4. \A r : r \in hits <=>
         /\ r \in DOMAIN json /\ Len(r) = n + 1
         /\ \A i \in 1..n : r[i] = q[i]
         /\ r[n + 1] = name
  <2>1. \A step : Fits(step, name) <=> step = name
    BY DEF Fits, AnyItem
  <2>2. \A r : (\A i \in 1..1 : Fits(r[n + i], <<name>>[i])) <=> r[n + 1] = name
    BY <1>1, <1>2, <2>1
  <2>. QED BY <1>1, <1>2, <2>2 DEF evalPath
<1>. HIDE DEF at, hits
<1>5. ASSUME NEW r \in hits PROVE r = at
  <2>1. IsSequence(r) /\ Len(r) = n + 1 /\ (\A i \in 1..n : r[i] = q[i]) /\ r[n + 1] = name
    BY <1>4 DEF IsBody
  <2>2. r = [i \in 1..(n + 1) |-> r[i]] /\ at = [i \in 1..(n + 1) |-> at[i]]
    BY <1>3, <2>1, SequenceIsList
  <2>3. \A i \in 1..(n + 1) : i = n + 1 \/ i \in 1..n
    BY <1>1
  <2>4. \A i \in 1..(n + 1) : r[i] = at[i]
    BY <1>3, <2>1, <2>3
  <2>. QED BY <2>2, <2>4
<1>6. at \in hits <=> at \in DOMAIN json
  BY <1>3, <1>4
<1>7. hits = IF at \in DOMAIN json THEN {at} ELSE {}
  BY <1>5, <1>6
<1>8. firstMatch(json, q, <<name>>) =
        IF hits = {} THEN None ELSE json[CHOOSE r \in hits : \A s \in hits \ {r} : Precedes(r, s)]
  BY DEF firstMatch, hits
<1>9. CASE at \in DOMAIN json
  <2>1. hits = {at}
    BY <1>7, <1>9
  <2>2. (CHOOSE r \in hits : \A s \in hits \ {r} : Precedes(r, s)) = at
    BY <2>1
  <2>. QED BY <1>8, <1>9, <2>1, <2>2 DEF at
<1>10. CASE at \notin DOMAIN json
  BY <1>7, <1>8, <1>10 DEF at
<1>. QED BY <1>9, <1>10

(* A row that the source allows: the object itself, and what is at its     *)
(* properties.                                                             *)
RowAllowed(json, q, node) ==
  /\ node.kind = "object" /\ ConformsAt(json, Place(q, node))
  /\ \A p \in node.properties : Append(q, p.name) \in DOMAIN json =>
       ConformsAt(json, Place(Append(q, p.name), p.node))

(* What is classified as required is there, and is not null (d9.ts         *)
(* classifyRequired).                                                      *)
LEMMA RequiredIsThere ==
  ASSUME NEW json, IsBody(json), NEW q, IsSequence(q), NEW node, RowAllowed(json, q, node),
         NEW p \in node.properties, IsProperty(p), p.node.kind = "scalar", classifyRequired(p), p.name # AnyItem
  PROVE  Present(firstMatch(json, q, <<p.name>>))
<1>. DEFINE at == Append(q, p.name)
            atom == json[at]
            nullable == p.node.nullable
            always == p.presence # None /\ p.presence.items > 0 /\ p.presence.presentNonNull = p.presence.items
<1>1. p.declaredRequired \in {None, TRUE, FALSE} /\ nullable \in {None, TRUE, FALSE}
  BY DEF IsProperty, Facts
<1>2. /\ always \/ (p.declaredRequired = TRUE /\ p.presence = None)
      /\ nullable = FALSE \/ (nullable # TRUE /\ always)
  BY <1>1 DEF classifyRequired
<1>3. /\ Always(p) \/ (p.declaredRequired = TRUE /\ p.presence = None) => at \in DOMAIN json
      /\ nullable = None /\ Always(p) => atom # "nil"
  <2>. DEFINE place == Place(q, node)
  <2>1. place.at = q /\ place.node = node
    BY DEF Place
  <2>. HIDE DEF place
  <2>2. ConformsAt(json, place) /\ node.kind = "object"
    BY DEF RowAllowed, place
  <2>. QED BY <2>1, <2>2 DEF ConformsAt
<1>4. at \in DOMAIN json
  BY <1>2, <1>3 DEF Always
<1>5. atom = "nil" => nullable # FALSE
  <2>. DEFINE place == Place(at, p.node)
  <2>1. place.at = at /\ place.node = p.node
    BY DEF Place
  <2>. HIDE DEF place
  <2>2. ConformsAt(json, place)
    BY <1>4 DEF RowAllowed, place
  <2>. QED BY <2>1, <2>2 DEF ConformsAt
<1>6. atom # "nil"
  BY <1>1, <1>2, <1>3, <1>5 DEF Always
<1>7. atom # None
  BY <1>4 DEF IsBody
<1>. QED BY <1>4, <1>6, <1>7, OneMatch DEF Present

(* A body that conforms conforms along the whole way down (the levels of   *)
(* the recursion exist, or there were a least one without).                *)
LevelsOf(json, response) ==
  CHOOSE f : f = [n \in 0..MaxNesting |->
                    IF n = 0 THEN {Place(<<>>, response)} ELSE UNION {ValuesIn(json, place) : place \in f[n - 1]}]

(* A body conforms at the root and at all that its values contain, level   *)
(* by level: the function is defined as Conforms defines it.               *)
LEMMA ConformsByLevel ==
  ASSUME NEW json, NEW response, Conforms(json, response)
  PROVE  LET level == LevelsOf(json, response)
         IN /\ level[0] = {Place(<<>>, response)}
            /\ \A n \in 1..MaxNesting : level[n] = UNION {ValuesIn(json, place) : place \in level[n - 1]}
            /\ \A n \in 0..MaxNesting : \A place \in level[n] : ConformsAt(json, place)
<1>. DEFINE Below(f, n) == UNION {ValuesIn(json, place) : place \in f[n - 1]}
            Next1(f, n) == IF n = 0 THEN {Place(<<>>, response)} ELSE UNION {ValuesIn(json, place) : place \in f[n - 1]}
            Stage(m, f) == f = [n \in 0..m |-> Next1(f, n)]
            level == LevelsOf(json, response)
            Without == {m \in Nat : ~\E f : Stage(m, f)}
<1>0. MaxNesting \in Nat
  BY NestingAssumption
<1>1. Without = {}
  <2>1. SUFFICES ASSUME Without # {} PROVE FALSE
    OBVIOUS
  <2>2. PICK m \in Without : \A k \in Without : m <= k
    BY <2>1, LeastOf
  <2>3. CASE m = 0
    <3>. DEFINE g == [n \in 0..0 |-> {Place(<<>>, response)}]
    <3>1. Stage(0, g)
      OBVIOUS
    <3>. QED BY <2>2, <2>3, <3>1
  <2>4. CASE m # 0
    <3>1. m - 1 \in Nat /\ m - 1 \notin Without
      <4>1. Without \subseteq Nat
        OBVIOUS
      <4>. HIDE DEF Without
      <4>. QED BY <2>2, <2>4, <4>1
    <3>2. PICK f : Stage(m - 1, f)
      BY <3>1
    <3>. DEFINE g == [n \in 0..m |-> Next1(f, n)]
    <3>3. ASSUME NEW n \in 0..(m - 1) PROVE f[n] = g[n]
      BY <3>1, <3>2
    <3>4. ASSUME NEW n \in 0..m, n # 0 PROVE f[n - 1] = g[n - 1]
      <4>1. n - 1 \in 0..(m - 1)
        BY <3>1, <3>4
      <4>. HIDE DEF g
      <4>. QED BY <3>3, <4>1
    <3>5. Stage(m, g)
      <4>. DEFINE h == [n \in 0..m |-> Next1(g, n)]
      <4>1. \A n \in 0..m : g[n] = h[n]
        BY <3>4
      <4>2. g = h
        BY <4>1
      <4>. QED BY <4>2
    <3>. QED BY <2>2, <3>5
  <2>. QED BY <2>3, <2>4
<1>2. \E f : Stage(MaxNesting, f)
  BY <1>0, <1>1
<1>3. Stage(MaxNesting, level)
  BY <1>2 DEF LevelsOf
<1>4. \A n \in 0..MaxNesting : \A place \in level[n] : ConformsAt(json, place)
  BY DEF Conforms, LevelsOf
<1>. HIDE DEF level
<1>5. level[0] = {Place(<<>>, response)}
  BY <1>0, <1>3
<1>6. ASSUME NEW n \in 1..MaxNesting PROVE level[n] = UNION {ValuesIn(json, place) : place \in level[n - 1]}
  <2>1. n \in 0..MaxNesting /\ n # 0
    BY <1>0
  <2>2. level[n] = Next1(level, n)
    BY <1>3, <2>1
  <2>. QED BY <2>1, <2>2
<1>. QED BY <1>4, <1>5, <1>6 DEF level

(* So do the root, what it contains, and what that contains.               *)
LEMMA ConformsBelow ==
  ASSUME NEW json, NEW response, Conforms(json, response)
  PROVE  LET root == Place(<<>>, response)
         IN /\ ConformsAt(json, root)
            /\ \A a \in ValuesIn(json, root) :
                 /\ ConformsAt(json, a)
                 /\ \A b \in ValuesIn(json, a) :
                      /\ ConformsAt(json, b)
                      /\ \A c \in ValuesIn(json, b) : ConformsAt(json, c)
<1>. DEFINE root == Place(<<>>, response)
            level == LevelsOf(json, response)
<1>1. /\ level[0] = {root}
      /\ \A n \in 1..MaxNesting : level[n] = UNION {ValuesIn(json, place) : place \in level[n - 1]}
      /\ \A n \in 0..MaxNesting : \A place \in level[n] : ConformsAt(json, place)
  BY ConformsByLevel
<1>. HIDE DEF level, root
<1>2. /\ {1, 2, 3} \subseteq 1..MaxNesting /\ {0, 1, 2, 3} \subseteq 0..MaxNesting
      /\ 1 - 1 = 0 /\ 2 - 1 = 1 /\ 3 - 1 = 2
  BY NestingAssumption
<1>3. /\ level[1] = UNION {ValuesIn(json, place) : place \in level[0]}
      /\ level[2] = UNION {ValuesIn(json, place) : place \in level[1]}
      /\ level[3] = UNION {ValuesIn(json, place) : place \in level[2]}
  BY <1>1, <1>2
<1>4. \A n \in {0, 1, 2, 3} : \A place \in level[n] : ConformsAt(json, place)
  BY <1>1, <1>2
<1>5. ASSUME NEW a \in ValuesIn(json, root) PROVE a \in level[1]
  BY <1>1, <1>3
<1>6. ASSUME NEW a \in level[1], NEW b \in ValuesIn(json, a) PROVE b \in level[2]
  BY <1>3
<1>7. ASSUME NEW b \in level[2], NEW c \in ValuesIn(json, b) PROVE c \in level[3]
  BY <1>3
<1>8. root \in level[0]
  BY <1>1
<1>. QED BY <1>4, <1>5, <1>6, <1>7, <1>8 DEF root

(* What a place is made of.                                                *)
LEMMA PlaceParts ==
  ASSUME NEW at, NEW node PROVE Place(at, node).at = at /\ Place(at, node).node = node
BY DEF Place

(* An object that conforms, with all its values, is a row that the source  *)
(* allows.                                                                 *)
LEMMA ObjectAllowed ==
  ASSUME NEW json, NEW q, NEW node, node.kind = "object", ConformsAt(json, Place(q, node)),
         \A c \in ValuesIn(json, Place(q, node)) : ConformsAt(json, c)
  PROVE  RowAllowed(json, q, node)
<1>. DEFINE place == Place(q, node)
<1>1. place.at = q /\ place.node = node
  BY PlaceParts
<1>. HIDE DEF place
<1>2. \A c \in ValuesIn(json, place) : ConformsAt(json, c)
  BY DEF place
<1>3. ValuesIn(json, place) =
        {Place(Append(q, p.name), p.node) : p \in {x \in node.properties : Append(q, x.name) \in DOMAIN json}}
  BY <1>1 DEF ValuesIn
<1>4. \A p \in node.properties : Append(q, p.name) \in DOMAIN json =>
        ConformsAt(json, Place(Append(q, p.name), p.node))
  BY <1>2, <1>3
<1>. QED BY <1>4 DEF RowAllowed

(* What a place lies in. *)
LEMMA WithoutItsLast ==
  ASSUME NEW at, IsSequence(at), NEW q, IsSequence(q), Len(q) = Len(at) + 1, \A i \in 1..Len(at) : q[i] = at[i]
  PROVE  SubSeq(q, 1, Len(q) - 1) = at
<1>. DEFINE n == Len(at)
<1>1. /\ n \in Nat /\ at = [i \in 1..n |-> at[i]]
      /\ Len(q) = n + 1 /\ q = [i \in 1..(n + 1) |-> q[i]]
  BY SequenceIsList
<1>. DEFINE S == Docs(q)
<1>2. q \in Seq(S)
  BY DEF IsSequence
<1>. HIDE DEF S
<1>3. Len(q) - 1 = n
  BY <1>1
<1>4. SubSeq(q, 1, n) = [i \in 1..n |-> q[i]]
  BY <1>1, <1>2
<1>5. [i \in 1..n |-> q[i]] = [i \in 1..n |-> at[i]]
  OBVIOUS
<1>. QED BY <1>1, <1>3, <1>4, <1>5

(* A row of a list that the source allows is allowed as what it is: one    *)
(* that failed, or an item.                                                *)
LEMMA ListRowAllowed ==
  ASSUME NEW json, IsBody(json), NEW at, IsSequence(at), NEW array, IsListOfObjects(array),
         ConformsAt(json, Place(at, array)),
         \A b \in ValuesIn(json, Place(at, array)) :
           ConformsAt(json, b) /\ \A c \in ValuesIn(json, b) : ConformsAt(json, c),
         NEW q \in DOMAIN json, Len(q) = Len(at) + 1, \A i \in 1..Len(at) : q[i] = at[i]
  PROVE  IsSequence(q) /\ RowAllowed(json, q, RowNode(json, q, array))
<1>. DEFINE n == Len(at)
            last == q[Len(q)]
            place == Place(at, array)
            node == RowNode(json, q, array)
<1>1. place.at = at /\ place.node = array
  BY PlaceParts
<1>. HIDE DEF place
<1>2. /\ ConformsAt(json, place)
      /\ \A b \in ValuesIn(json, place) : ConformsAt(json, b) /\ \A c \in ValuesIn(json, b) : ConformsAt(json, c)
  BY DEF place
<1>3. array.kind = "array" /\ array.items.kind = "object"
  BY DEF IsListOfObjects
<1>4. json[at] = "arr"
  BY <1>1, <1>2, <1>3 DEF ConformsAt
<1>5. /\ IsSequence(q) /\ n \in Nat /\ at = [i \in 1..n |-> at[i]]
      /\ Len(q) = n + 1 /\ q = [i \in 1..(n + 1) |-> q[i]]
  BY SequenceIsList DEF IsBody
<1>6. q # <<>>
  BY <1>5
<1>7. SubSeq(q, 1, Len(q) - 1) = at
  BY <1>5, WithoutItsLast
<1>8. last \in Docs(Indices)
  BY <1>4, <1>6, <1>7 DEF IsBody
<1>9. q = Append(at, last)
  <2>. DEFINE S == Docs(at) \cup {last}
  <2>1. at \in Seq(S) /\ last \in S
    <3>. DEFINE T == Docs(at)
    <3>1. at \in Seq(T)
      BY DEF IsSequence
    <3>. HIDE DEF T, last
    <3>2. at \in Seq(T \cup {last})
      BY <3>1
    <3>. QED BY <3>2 DEF T
  <2>. HIDE DEF S
  <2>2. Append(at, last) = [i \in 1..(n + 1) |-> IF i = n + 1 THEN last ELSE at[i]]
    BY <2>1
  <2>3. ASSUME NEW i \in 1..(n + 1) PROVE q[i] = IF i = n + 1 THEN last ELSE at[i]
    <3>1. CASE i = n + 1
      BY <1>5, <3>1
    <3>2. CASE i # n + 1
      <4>1. i \in 1..Len(at)
        BY <1>5, <3>2
      <4>. QED BY <3>2, <4>1
    <3>. QED BY <3>1, <3>2
  <2>. QED BY <1>5, <2>2, <2>3
<1>. HIDE DEF last
<1>10. Place(q, node) \in ValuesIn(json, place)
  <2>1. q \in {Append(at, i) : i \in Docs(Indices)} \cap DOMAIN json
    BY <1>8, <1>9
  <2>2. ValuesIn(json, place) =
          {Place(row, RowNode(json, row, array)) : row \in {Append(at, i) : i \in Docs(Indices)} \cap DOMAIN json}
    BY <1>1, <1>3 DEF ValuesIn
  <2>. QED BY <2>1, <2>2
<1>11. node.kind = "object"
  BY <1>3 DEF RowNode
<1>. HIDE DEF node
<1>12. RowAllowed(json, q, node)
  BY <1>2, <1>10, <1>11, ObjectAllowed
<1>. QED BY <1>5, <1>12 DEF node

(* The rows of a place, as a mapping finds them. *)
RowsAt(json, locus) == IF locus.kind = "collection" THEN evalPath(json, <<>>, locus.at) ELSE {<<>>}

(* Every row that a mapping reads, in the root or in a list, is one that   *)
(* the source allows.                                                      *)
LEMMA RowsAllowed ==
  ASSUME NoneIsNoRecord, NEW json, IsBody(json), NEW response, Conforms(json, response), IsResponse(response),
         NEW locus \in locusCandidates(response), NEW q \in RowsAt(json, locus)
  PROVE  /\ IsSequence(q) /\ IsObjectNode(locus.locus)
         /\ IF locus.kind = "collection"
            THEN LET array == ListAt(response, locus)
                 IN /\ IsListNode(array) /\ array.items = locus.locus
                    /\ RowAllowed(json, q, RowNode(json, q, array))
            ELSE RowAllowed(json, q, locus.locus)
<1>. DEFINE root == Place(<<>>, response)
<1>1. /\ ConformsAt(json, root)
      /\ \A a \in ValuesIn(json, root) :
           /\ ConformsAt(json, a)
           /\ \A b \in ValuesIn(json, a) :
                /\ ConformsAt(json, b)
                /\ \A c \in ValuesIn(json, b) : ConformsAt(json, c)
  BY ConformsBelow
<1>2. IsSequence(<<>>) /\ Len(<<>>) = 0
  <2>1. <<>> \in Seq({1})
    OBVIOUS
  <2>. QED BY <2>1, SequenceOfItsOwn
<1>3. \/ IsListOfObjects(response) /\ locus = Candidate("collection", <<AnyItem>>, response.items, None)
      \/ response.kind = "object" /\ locus = Candidate("root", <<>>, response, None)
      \/ /\ response.kind = "object"
         /\ \E p \in response.properties :
              /\ IsListOfObjects(p.node) /\ propertyAccessor(p.name) # None
              /\ locus = Candidate("collection", <<p.name, AnyItem>>, p.node.items, p.name)
  BY DEF locusCandidates
<1>4. CASE IsListOfObjects(response) /\ locus = Candidate("collection", <<AnyItem>>, response.items, None)
  <2>1. locus.kind = "collection" /\ locus.at = <<AnyItem>> /\ locus.locus = response.items /\ locus.property = None
    BY <1>4 DEF Candidate
  <2>2. ListAt(response, locus) = response
    BY <2>1 DEF ListAt
  <2>3. q \in DOMAIN json /\ Len(q) = Len(<<>>) + 1 /\ \A i \in 1..Len(<<>>) : q[i] = <<>>[i]
    BY <1>2, <2>1 DEF RowsAt, evalPath
  <2>4. IsSequence(q) /\ RowAllowed(json, q, RowNode(json, q, response))
    BY <1>1, <1>2, <1>4, <2>3, ListRowAllowed
  <2>5. IsListNode(response)
    BY <1>4 DEF IsResponse
  <2>. QED BY <2>1, <2>2, <2>4, <2>5 DEF IsListNode
<1>5. CASE response.kind = "object" /\ locus = Candidate("root", <<>>, response, None)
  <2>1. locus.kind = "root" /\ locus.locus = response
    BY <1>5 DEF Candidate
  <2>2. q = <<>>
    BY <2>1 DEF RowsAt
  <2>3. RowAllowed(json, <<>>, response)
    BY <1>1, <1>5, ObjectAllowed
  <2>4. IsObjectNode(response)
    BY <1>5 DEF IsResponse
  <2>. QED BY <1>2, <2>1, <2>2, <2>3, <2>4
<1>6. ASSUME response.kind = "object",
             NEW p \in response.properties, IsListOfObjects(p.node), propertyAccessor(p.name) # None,
             locus = Candidate("collection", <<p.name, AnyItem>>, p.node.items, p.name)
      PROVE  /\ IsSequence(q) /\ IsObjectNode(locus.locus) /\ locus.kind = "collection"
             /\ LET array == ListAt(response, locus)
                IN /\ IsListNode(array) /\ array.items = locus.locus
                   /\ RowAllowed(json, q, RowNode(json, q, array))
  <2>. DEFINE at == <<p.name>>
              name == p.name
              array == p.node
  <2>1. locus.kind = "collection" /\ locus.at = <<name, AnyItem>> /\ locus.locus = array.items /\ locus.property = name
    BY <1>6 DEF Candidate
  <2>2. /\ IsObjectNode(response) /\ IsListNode(array) /\ name # None
        /\ \A x \in response.properties : x.name = name => x = p
    BY <1>6 DEF IsResponse, IsObjectNode, IsProperty
  <2>3. ListAt(response, locus) = array
    BY <2>1, <2>2 DEF ListAt
  <2>4. name # AnyItem
    BY <1>6, SpellingAssumption DEF propertyAccessor
  <2>. HIDE DEF name, array
  <2>5. /\ IsSequence(at) /\ Len(at) = 1 /\ at[1] = name /\ at = Append(<<>>, name)
    <3>1. <<name>> \in Seq({name}) /\ Len(<<name>>) = 1 /\ <<name>>[1] = name /\ <<name>> = Append(<<>>, name)
      OBVIOUS
    <3>. QED BY <3>1, SequenceOfItsOwn DEF name
  <2>. HIDE DEF at
  <2>6. q \in DOMAIN json /\ Len(q) = 2 /\ q[1] = name
    <3>. DEFINE path == <<name, AnyItem>>
    <3>1. Len(path) = 2 /\ path[1] = name /\ path[2] = AnyItem
      OBVIOUS
    <3>. HIDE DEF path
    <3>2. q \in evalPath(json, <<>>, path)
      BY <2>1 DEF RowsAt, path
    <3>3. q \in DOMAIN json /\ Len(q) = 0 + 2 /\ \A i \in 1..2 : Fits(q[0 + i], path[i])
      BY <1>2, <3>1, <3>2 DEF evalPath
    <3>4. Fits(q[1], name)
      BY <3>1, <3>3
    <3>. QED BY <2>4, <3>3, <3>4 DEF Fits, AnyItem
  <2>7. at \in DOMAIN json
    <3>1. IsSequence(q) /\ q # <<>>
      BY <2>6 DEF IsBody
    <3>2. SubSeq(q, 1, Len(q) - 1) \in DOMAIN json
      BY <2>6, <3>1 DEF IsBody
    <3>3. Len(q) = Len(at) + 1 /\ \A i \in 1..Len(at) : q[i] = at[i]
      BY <2>5, <2>6
    <3>. QED BY <2>5, <3>1, <3>2, <3>3, WithoutItsLast
  <2>8. Place(at, array) \in ValuesIn(json, root)
    <3>1. root.at = <<>> /\ root.node = response
      BY PlaceParts
    <3>. HIDE DEF root
    <3>2. ValuesIn(json, root) =
            {Place(Append(<<>>, x.name), x.node) : x \in {y \in response.properties : Append(<<>>, y.name) \in DOMAIN json}}
      BY <1>6, <3>1 DEF ValuesIn
    <3>. QED BY <2>5, <2>7, <3>2 DEF name, array
  <2>9. IsSequence(q) /\ RowAllowed(json, q, RowNode(json, q, array))
    <3>1. Len(q) = Len(at) + 1 /\ \A i \in 1..Len(at) : q[i] = at[i]
      BY <2>5, <2>6
    <3>2. IsListOfObjects(array)
      BY <1>6 DEF array
    <3>. HIDE DEF root
    <3>. QED BY <1>1, <2>5, <2>6, <2>8, <3>1, <3>2, ListRowAllowed
  <2>. QED BY <2>1, <2>2, <2>3, <2>9 DEF IsListNode
<1>. QED BY <1>3, <1>4, <1>5, <1>6

-----------------------------------------------------------------------------
(* What a mapping asks of a row that the source allows. *)

(* An accessor that can be spelled and parsed is the property's name.      *)
LEMMA AccessorSpells ==
  ASSUME NEW name, name \notin Unaddressable, propertyAccessor(name) # BadPath
  PROVE  propertyAccessor(name) = <<name>> /\ name # AnyItem
BY SpellingAssumption DEF propertyAccessor, Spelled

(* What a planned field is made of.                                        *)
LEMMA PlannedField ==
  ASSUME NEW p, NEW name
  PROVE  LET f == planResourceField(p, name)
         IN f.name = name /\ f.path = propertyAccessor(p.name) /\ f.required = classifyRequired(p)
<1>. DEFINE path == propertyAccessor(p.name)
            of == semanticTypeFor(p.node.type, p.node.values)
            required == classifyRequired(p)
            f == planResourceField(p, name)
<1>1. f = [name |-> name, path |-> path, of |-> of, required |-> required]
  BY DEF planResourceField
<1>. HIDE DEF path, of, required, f
<1>2. f.name = name /\ f.path = path /\ f.required = required
  BY <1>1
<1>. QED BY <1>2 DEF path, required, f

(* The paths that a plan reads with can be parsed where those of what it   *)
(* renders can.                                                            *)
LEMMA PlannedPaths ==
  ASSUME NoneIsNoRecord, NEW plan, BadPath \notin PathsRead(renderResponse(plan))
  PROVE  /\ \A f \in plan.resource.fields : f.path # BadPath
         /\ IsCollection(plan) => Spelled(plan.at) # BadPath
         /\ plan.onError # None =>
              /\ plan.onError.when.path # BadPath
              /\ \A f \in plan.onError.resource.fields : f.path # <<f.name>> => f.path # BadPath
<1>. DEFINE raw == renderResponse(plan)
<1>1. /\ raw.map = FieldMap(plan.resource.fields)
      /\ raw.collection = IF IsCollection(plan) THEN Spelled(plan.at) ELSE None
      /\ IF plan.onError = None THEN raw.onError = None
         ELSE /\ raw.onError = renderOnError(plan.onError)
              /\ raw.onError.when = plan.onError.when
              /\ raw.onError.map = FieldMap({f \in plan.onError.resource.fields : f.path # <<f.name>>})
  BY ResponseParts
<1>. HIDE DEF raw
<1>2. /\ \A m \in raw.map : m.path # BadPath
      /\ raw.collection # BadPath
      /\ raw.onError # None => raw.onError.when.path # BadPath /\ \A m \in raw.onError.map : m.path # BadPath
  BY DEF PathsRead, raw
<1>3. \A fields : \A f \in fields : \E m \in FieldMap(fields) : m.path = f.path
  BY FieldMapOf
<1>4. \A f \in plan.resource.fields : f.path # BadPath
  BY <1>1, <1>2, <1>3
<1>5. ASSUME plan.onError # None
      PROVE  /\ plan.onError.when.path # BadPath
             /\ \A f \in plan.onError.resource.fields : f.path # <<f.name>> => f.path # BadPath
  <2>. DEFINE other == {f \in plan.onError.resource.fields : f.path # <<f.name>>}
  <2>1. raw.onError # None /\ raw.onError.when = plan.onError.when /\ raw.onError.map = FieldMap(other)
    BY <1>1, <1>5, OnErrorIsSomething
  <2>2. \A f \in plan.onError.resource.fields : f.path # <<f.name>> => f \in other
    OBVIOUS
  <2>. HIDE DEF other
  <2>3. ASSUME NEW f \in other PROVE f.path # BadPath
    <3>1. PICK m \in FieldMap(other) : m.path = f.path
      BY <1>3
    <3>. QED BY <1>2, <2>1, <3>1
  <2>. QED BY <1>2, <2>1, <2>2, <2>3
<1>. QED BY <1>1, <1>2, <1>4, <1>5

(* A row has no required field missing when each is there.                 *)
LEMMA NothingMissing ==
  ASSUME NEW json, NEW item, NEW fields,
         \A f \in fields : f.required => Present(firstMatch(json, item, f.path))
  PROVE  mapRow(json, item, fields).missing = {}
<1>. DEFINE absent == {f \in fields : ~Present(firstMatch(json, item, f.path))}
            missing == {f.name : f \in {g \in absent : g.required}}
            degraded == {f.name : f \in {g \in absent : ~g.required}}
<1>1. missing = {}
  OBVIOUS
<1>2. mapRow(json, item, fields) = [missing |-> missing, degraded |-> degraded]
  BY DEF mapRow
<1>. HIDE DEF missing, degraded
<1>. QED BY <1>1, <1>2

(* A row that did not fail has what its resource requires. *)
LEMMA ItemMaps ==
  ASSUME NoneIsNoRecord, NEW json, IsBody(json), NEW q, IsSequence(q),
         NEW plan, NEW locus, NEW name, Mapped(plan, locus, name), IsObjectNode(locus.locus),
         RowAllowed(json, q, locus.locus), BadPath \notin PathsRead(renderResponse(plan)),
         NEW resp, MapsAs(resp, plan), NEW resources, AsksFor(resources, plan.resource)
  PROVE  mapRow(json, q, SuccessFields(resp, resources)).missing = {}
<1>. DEFINE required(m) == RequiredIn(FieldsOf(resources, resp.resource), m.name) /\ ~m.loose
            entry(m) == [name |-> m.name, path |-> m.path, required |-> required(m)]
<1>1. SuccessFields(resp, resources) = {entry(m) : m \in resp.fields}
  BY DEF SuccessFields
<1>2. \A m : entry(m).path = m.path /\ (entry(m).required => required(m))
  OBVIOUS
<1>3. ASSUME NEW m \in resp.fields, required(m) PROVE Present(firstMatch(json, q, m.path))
  <2>1. PICK f \in plan.resource.fields : m.name = f.name /\ m.path = f.path
    <3>1. m \in FieldMap(plan.resource.fields)
      BY <1>3 DEF MapsAs
    <3>. QED BY <3>1, FieldMapOf
  <2>2. PICK p \in locusLeaves(locus.locus) : f = planResourceField(p, p.name)
    <3>. DEFINE fields == {planResourceField(p, p.name) : p \in locusLeaves(locus.locus)}
    <3>1. plan.resource = [name |-> name, fields |-> fields]
      BY DEF Mapped
    <3>. HIDE DEF fields
    <3>2. f \in fields
      BY <2>1, <3>1
    <3>. QED BY <3>2 DEF fields
  <2>3. /\ p \in locus.locus.properties /\ p.node.kind = "scalar" /\ propertyAccessor(p.name) # None
        /\ IsProperty(p)
    BY DEF locusLeaves, IsObjectNode
  <2>4. f.path # BadPath
    BY PlannedPaths
  <2>5. f.path = propertyAccessor(p.name) /\ f.required = classifyRequired(p)
    BY <2>2, PlannedField
  <2>6. p.name \notin Unaddressable
    BY <2>3 DEF propertyAccessor
  <2>7. f.path = <<p.name>> /\ p.name # AnyItem
    BY <2>4, <2>5, <2>6, AccessorSpells
  <2>8. PICK g \in resources[plan.resource.name] : g.name = f.name /\ g.required = f.required
    BY DEF AsksFor
  <2>9. FieldsOf(resources, resp.resource) = resources[plan.resource.name]
    BY DEF FieldsOf, AsksFor, MapsAs
  <2>10. g.required
    BY <1>3, <2>1, <2>8, <2>9 DEF RequiredIn
  <2>11. classifyRequired(p)
    BY <2>5, <2>8, <2>10
  <2>. QED BY <2>1, <2>3, <2>7, <2>11, RequiredIsThere
<1>. HIDE DEF entry, required
<1>4. \A f \in SuccessFields(resp, resources) : f.required => Present(firstMatch(json, q, f.path))
  BY <1>1, <1>2, <1>3
<1>. QED BY <1>4, NothingMissing

(* What the source says of a row that failed.                              *)
FailedNode(e) == [kind |-> "object", properties |-> {e.code, e.message}]

(* One that failed has what the error resource requires. *)
LEMMA FailureMaps ==
  ASSUME NoneIsNoRecord, NEW json, IsBody(json), NEW q, IsSequence(q), NEW plan, NEW e, NEW name,
         IsRowErrors(e), RowErrorsReadable(e), plan.onError # None, plan.onError = planRowErrors(e, name),
         RowAllowed(json, q, FailedNode(e)), BadPath \notin PathsRead(renderResponse(plan)),
         NEW resp, MapsAs(resp, plan), NEW resources, AsksFor(resources, plan.onError.resource)
  PROVE  mapRow(json, q, ErrorFields(resp.onError, resources)).missing = {}
<1>. DEFINE map == resp.onError.map
            own == plan.onError.resource.fields
            named(f) == {m \in map : m.name = f.name}
            path(f) == IF named(f) = {} THEN <<f.name>> ELSE (CHOOSE m \in named(f) : TRUE).path
            required(f) == f.required /\ \A m \in named(f) : ~m.loose
            entry(f) == [name |-> f.name, path |-> path(f), required |-> required(f)]
            fields == FieldsOf(resources, resp.onError.errorResource)
<1>1. ErrorFields(resp.onError, resources) = {entry(f) : f \in fields}
  BY DEF ErrorFields
<1>2. \A f : entry(f).path = path(f) /\ (entry(f).required => f.required)
  OBVIOUS
<1>3. fields = resources[plan.onError.resource.name]
  BY DEF FieldsOf, AsksFor, MapsAs
<1>4. own = {planResourceField(e.code, "code"), planResourceField(e.message, "message")}
  BY ErrorParts
<1>5. ASSUME NEW g \in own
      PROVE  \E p \in {e.code, e.message} :
               /\ g.path = propertyAccessor(p.name) /\ g.required = classifyRequired(p)
               /\ g.name = (IF g = planResourceField(e.code, "code") THEN "code" ELSE "message")
  BY <1>4, PlannedField
<1>6. \A g, h \in own : g.name = h.name => g = h
  BY <1>4, <1>5
<1>7. ASSUME NEW f \in fields, f.required PROVE Present(firstMatch(json, q, path(f)))
  <2>1. PICK g \in own : g.name = f.name /\ g.required = f.required
    BY <1>3, <1>7 DEF AsksFor
  <2>. DEFINE other == {h \in own : h.path # <<h.name>>}
  <2>2. map = FieldMap(other)
    BY DEF MapsAs
  <2>3. path(f) = g.path
    <3>1. ASSUME NEW m \in map, m.name = f.name PROVE m.path = g.path
      <4>1. m \in FieldMap(other)
        BY <2>2, <3>1
      <4>2. other \subseteq own
        OBVIOUS
      <4>. HIDE DEF other, own
      <4>3. PICK h \in other : m.name = h.name /\ m.path = h.path
        BY <4>1, FieldMapOf
      <4>. QED BY <1>6, <2>1, <3>1, <4>2, <4>3
    <3>2. ASSUME g.path # <<g.name>> PROVE \E m \in map : m.name = f.name
      <4>1. g \in other
        BY <3>2
      <4>. HIDE DEF other, own
      <4>2. PICK m \in FieldMap(other) : m.name = g.name
        BY <4>1, FieldMapOf
      <4>. QED BY <2>1, <2>2, <4>2
    <3>. HIDE DEF map, own
    <3>3. CASE named(f) = {}
      BY <2>1, <3>2, <3>3
    <3>4. CASE named(f) # {}
      <4>. DEFINE m == CHOOSE x \in named(f) : TRUE
      <4>1. m \in named(f)
        BY <3>4
      <4>. HIDE DEF m
      <4>2. m.path = g.path
        BY <3>1, <4>1
      <4>. QED BY <3>4, <4>2 DEF m
    <3>. QED BY <3>3, <3>4
  <2>4. PICK p \in {e.code, e.message} : /\ g.path = propertyAccessor(p.name) /\ g.required = classifyRequired(p)
                                         /\ g.name \in {"code", "message"}
    BY <1>5
  <2>5. g.path # BadPath
    <3>1. g.path # <<g.name>> => g.path # BadPath
      BY PlannedPaths
    <3>2. <<g.name>> # BadPath
      BY <2>4 DEF BadPath
    <3>. QED BY <3>1, <3>2
  <2>6. p.name \notin Unaddressable
    BY <2>4 DEF RowErrorsReadable
  <2>7. g.path = <<p.name>> /\ p.name # AnyItem
    BY <2>4, <2>5, <2>6, AccessorSpells
  <2>8. classifyRequired(p)
    BY <1>7, <2>1, <2>4
  <2>9. IsProperty(p) /\ p.node.kind = "scalar"
    BY DEF IsRowErrors
  <2>10. p \in FailedNode(e).properties
    BY DEF FailedNode
  <2>11. Present(firstMatch(json, q, <<p.name>>))
    BY <2>7, <2>8, <2>9, <2>10, RequiredIsThere
  <2>. QED BY <2>3, <2>7, <2>11
<1>. HIDE DEF entry, path, fields
<1>8. \A f \in ErrorFields(resp.onError, resources) : f.required => Present(firstMatch(json, q, f.path))
  BY <1>1, <1>2, <1>7
<1>. QED BY <1>8, NothingMissing

(* The plan of failed rows is not None.                                    *)
LEMMA PlannedErrorIsSomething ==
  ASSUME NoneIsNoRecord, NEW rowErrors, NEW name PROVE planRowErrors(rowErrors, name) # None
<1>. DEFINE resource == [name |-> ErrorName(name),
                         fields |-> {planResourceField(rowErrors.code, "code"),
                                     planResourceField(rowErrors.message, "message")}]
            when == [path |-> propertyAccessor(rowErrors.property), test |-> rowErrors.equals]
            r == [resource |-> resource, when |-> when]
<1>1. planRowErrors(rowErrors, name) = r
  BY Zenon DEF planRowErrors, ErrorName
<1>. HIDE DEF resource, when
<1>2. r = [f \in {"resource", "when"} |-> r[f]]
  OBVIOUS
<1>. HIDE DEF r
<1>3. IsRecord(r, {"resource", "when"})
  BY <1>2 DEF IsRecord
<1>. QED BY <1>1, <1>3 DEF NoneIsNoRecord

(* The rows that the compiled mapping reads are those of the plan's place. *)
LEMMA SameRows ==
  ASSUME NoneIsNoRecord, NEW plan, NEW locus, NEW name, Mapped(plan, locus, name),
         BadPath \notin PathsRead(renderResponse(plan)), NEW resp, MapsAs(resp, plan), NEW json
  PROVE  Items(resp, json) = RowsAt(json, locus)
<1>1. /\ plan.at = locus.at /\ locus.at # None /\ IsSequence(locus.at)
      /\ locus.kind = "collection" <=> locus.at # <<>>
  BY CandidateAt DEF Mapped
<1>2. CASE locus.kind = "collection"
  <2>1. IsCollection(plan)
    BY <1>1, <1>2 DEF IsCollection
  <2>2. Spelled(plan.at) # BadPath
    BY <2>1, PlannedPaths
  <2>3. resp.collection = locus.at
    BY <1>1, <2>1, <2>2 DEF MapsAs, Spelled
  <2>. QED BY <1>1, <1>2, <2>3 DEF Items, RowsAt
<1>3. CASE locus.kind # "collection"
  <2>1. ~IsCollection(plan)
    BY <1>1, <1>3 DEF IsCollection
  <2>2. resp.collection = None
    BY <2>1 DEF MapsAs
  <2>. QED BY <1>3, <2>2 DEF Items, RowsAt
<1>. QED BY <1>2, <1>3

(* Which rows a mapping takes for failed are those that the source says    *)
(* failed.                                                                 *)
LEMMA SameFailures ==
  ASSUME NoneIsNoRecord, NEW json, NEW q, NEW plan, NEW e, NEW name, IsRowErrors(e), RowErrorsReadable(e),
         plan.onError # None, plan.onError = planRowErrors(e, name),
         BadPath \notin PathsRead(renderResponse(plan)), NEW resp, MapsAs(resp, plan)
  PROVE  matchesDiscriminator(json, q, resp.onError.when) <=> firstMatch(json, q, <<e.property>>) = e.equals
<1>. DEFINE when == resp.onError.when
<1>1. when = plan.onError.when
  BY DEF MapsAs
<1>2. when.path = propertyAccessor(e.property) /\ when.test = e.equals
  BY <1>1, ErrorParts
<1>3. when.path # BadPath
  BY <1>1, PlannedPaths
<1>4. when.path = <<e.property>>
  BY <1>2, <1>3, AccessorSpells DEF RowErrorsReadable
<1>5. e.equals \notin {None, "nil", "exists", "missing", "any"}
  BY DEF IsRowErrors
<1>. HIDE DEF when
<1>6. matchesDiscriminator(json, q, when) <=> Present(firstMatch(json, q, when.path)) /\ firstMatch(json, q, when.path) = when.test
  BY <1>2, <1>5 DEF matchesDiscriminator
<1>. QED BY <1>2, <1>4, <1>5, <1>6 DEF Present, when

(* A body that the source allows is no violation of the mapping that was   *)
(* emitted for it.                                                         *)
LEMMA AllowedBodyMaps ==
  ASSUME NoneIsNoRecord, NEW plan, NEW locus, NEW name, Mapped(plan, locus, name), IsResponse(plan.operation.response),
         BadPath \notin PathsRead(renderResponse(plan)),
         NEW t, t.extract = None, t.response # None, MapsAs(t.response, plan), NEW resources,
         \A r \in Claims(plan) : AsksFor(resources, r),
         plan.onError # None => plan.onError.resource # None,
         NEW json, IsBody(json), Conforms(json, plan.operation.response)
  PROVE  applyResponseMapping(t, json, resources).status # "violation"
<1>. DEFINE resp == t.response
            items == Items(resp, json)
            success == SuccessFields(resp, resources)
            mapped == MapResponse(resp, json, resources)
            response == plan.operation.response
            array == ListAt(response, locus)
            e == IF locus.kind = "collection" THEN array.rowErrors ELSE None
<1>1. /\ locus \in locusCandidates(response)
      /\ plan.onError = IF e = None THEN None ELSE planRowErrors(e, name)
      /\ e # None => RowErrorsReadable(e)
  BY DEF Mapped
<1>2. ASSUME NEW q \in items
      PROVE  /\ IsSequence(q) /\ IsObjectNode(locus.locus)
             /\ IF locus.kind = "collection"
                THEN /\ IsListNode(array) /\ array.items = locus.locus
                     /\ RowAllowed(json, q, RowNode(json, q, array))
                ELSE RowAllowed(json, q, locus.locus)
  <2>1. q \in RowsAt(json, locus)
    BY <1>2, SameRows
  <2>. HIDE DEF items
  <2>. QED BY <1>1, <2>1, RowsAllowed
<1>3. AsksFor(resources, plan.resource) /\ (plan.onError # None => AsksFor(resources, plan.onError.resource))
  BY DEF Claims, MapsAs
<1>. HIDE DEF items, success, mapped, response, array
<1>4. ASSUME mapped.missing = {}, mapped.whole = FALSE PROVE applyResponseMapping(t, json, resources).status # "violation"
  <2>. DEFINE missing == mapped.missing \cup NothingExtracted.missing
  <2>1. applyResponseMapping(t, json, resources) = Outcome(t, mapped, NothingExtracted)
    BY DEF applyResponseMapping, mapped, resp
  <2>2. missing = {}
    BY <1>4 DEF NothingExtracted
  <2>3. Outcome(t, mapped, NothingExtracted).status =
          IF missing # {} \/ mapped.whole THEN "violation"
          ELSE IF mapped.degraded \cup NothingExtracted.degraded # {} THEN "degraded" ELSE "ok"
    BY DEF Outcome
  <2>. HIDE DEF missing
  <2>. QED BY <1>4, <2>1, <2>2, <2>3
<1>5. CASE plan.onError = None
  <2>1. resp.onError = None /\ (locus.kind = "collection" => array.rowErrors = None)
    <3>1. e # None => plan.onError # None
      BY <1>1, <1>5, PlannedErrorIsSomething
    <3>. QED BY <1>5, <3>1 DEF MapsAs
  <2>2. ASSUME NEW q \in items PROVE mapRow(json, q, success).missing = {}
    <3>1. RowAllowed(json, q, locus.locus)
      BY <1>2, <2>1 DEF RowNode
    <3>. QED BY <1>2, <1>3, <3>1, ItemMaps DEF success
  <2>. DEFINE row == [q \in items |-> mapRow(json, q, success)]
  <2>3. mapped = AllRequired(resp, json, items, success)
    BY <2>1 DEF mapped, MapResponse, items, success
  <2>4. mapped.missing = UNION {row[q].missing : q \in items} /\ mapped.whole = FALSE
    BY <2>3 DEF AllRequired
  <2>5. \A q \in items : row[q].missing = {}
    BY <2>2
  <2>. HIDE DEF row
  <2>6. mapped.missing = {}
    BY <2>4, <2>5
  <2>. QED BY <1>4, <2>4, <2>6
<1>6. CASE plan.onError # None
  <2>1. /\ e # None /\ locus.kind = "collection" /\ e = array.rowErrors /\ plan.onError = planRowErrors(e, name)
        /\ RowErrorsReadable(e) /\ resp.onError # None
    BY <1>1, <1>6 DEF MapsAs
  <2>. HIDE DEF e
  <2>. DEFINE errors == ErrorFields(resp.onError, resources)
              failed == {q \in items : matchesDiscriminator(json, q, resp.onError.when)}
              row == [q \in items |-> mapRow(json, q, IF q \in failed THEN errors ELSE success)]
              usable == {q \in items : row[q].missing = {}}
  <2>2. mapped = RowsOrErrors(items, row, failed)
    BY <2>1 DEF mapped, MapResponse, ReadRows, items, success
  <2>. HIDE DEF errors
  <2>3. ASSUME NEW q \in items PROVE row[q].missing = {}
    <3>1. IsRowErrors(e)
      BY <1>2, <2>1 DEF IsListNode
    <3>2. q \in failed <=> firstMatch(json, q, <<e.property>>) = e.equals
      BY <1>6, <2>1, <3>1, SameFailures
    <3>3. CASE q \in failed
      <4>1. RowNode(json, q, array) = FailedNode(e)
        BY <2>1, <3>2, <3>3 DEF RowNode, FailedNode
      <4>2. IsSequence(q) /\ RowAllowed(json, q, FailedNode(e))
        BY <1>2, <2>1, <4>1
      <4>3. mapRow(json, q, errors).missing = {}
        BY <1>3, <1>6, <2>1, <3>1, <4>2, FailureMaps DEF errors
      <4>. QED BY <3>3, <4>3
    <3>4. CASE q \notin failed
      <4>1. RowNode(json, q, array) = locus.locus
        BY <1>2, <2>1, <3>2, <3>4 DEF RowNode
      <4>2. IsSequence(q) /\ IsObjectNode(locus.locus) /\ RowAllowed(json, q, locus.locus)
        BY <1>2, <2>1, <4>1
      <4>3. mapRow(json, q, success).missing = {}
        BY <1>3, <4>2, ItemMaps DEF success
      <4>. QED BY <3>4, <4>3
    <3>. QED BY <3>3, <3>4
  <2>. HIDE DEF row, failed
  <2>4. usable = items
    BY <2>3
  <2>5. mapped.missing = {} /\ mapped.whole = (items # {} /\ usable = {})
    BY <2>2 DEF RowsOrErrors
  <2>. HIDE DEF usable
  <2>6. mapped.whole = FALSE
    BY <2>4, <2>5
  <2>. QED BY <1>4, <2>5, <2>6
<1>. QED BY <1>5, <1>6

(* A tool of an emission maps what the source says its operation answers.  *)
THEOREM EmissionMaps ==
  ASSUME NoneIsNoRecord, TornIsNoRecord, NEW d, IsDraft(d), NEW record, SoundRecord(record), NEW contracts,
         emit(d, record, contracts) # NoFiles, PathsParse(plansOf(d, record)),
         NEW t \in Docs(compile(load(toDisk(emit(d, record, contracts)))).tools),
         NEW operation \in OperationsOf(d, t.connector.key),
         NEW json, IsBody(json), Conforms(json, operation.response)
  PROVE  \/ t.response = None
         \/ applyResponseMapping(t, json, compile(load(toDisk(emit(d, record, contracts)))).resources).status
              # "violation"
<1>. DEFINE plans == plansOf(d, record)
            model == load(toDisk(emit(d, record, contracts)))
            resources == compile(model).resources
<1>. SUFFICES ASSUME t.response # None PROVE applyResponseMapping(t, json, resources).status # "violation"
  OBVIOUS
<1>1. Rendered(model, d, record, contracts)
  BY LoadedEmission DEF SoundRecord
<1>2. PlanList(d, record, plans)
  BY PlansAreKept DEF SoundRecord
<1>3. compileManifest(emit(d, record, contracts))
  BY EmissionCompiles
<1>4. PICK k \in 1..Len(plans) : /\ plans[k].decision.capabilityId = t.id
                                /\ plans[k].operation.key = t.connector.key
  BY <1>3, EmittedTool DEF SoundRecord
<1>. HIDE DEF model
<1>5. t.extract = None /\ MapsAs(t.response, plans[k])
  BY <1>1, <1>4, ToolMaps DEF model
<1>6. \A r \in Claims(plans[k]) : AsksFor(resources, r)
  BY <1>1, ResourcesAsk DEF model
<1>7. PICK locus, name : Mapped(plans[k], locus, name)
  BY <1>2, <1>5, PlanIsSound DEF MapsAs
<1>8. operation = plans[k].operation /\ IsResponse(operation.response)
  <2>1. operation \in OperationsOf(d, t.connector.key) /\ plans[k].operation \in OperationsOf(d, plans[k].decision.operation)
    BY <1>2 DEF PlanList
  <2>2. PICK i \in 1..Len(d.operations) : operation = d.operations[i] /\ operation.key = t.connector.key
    BY <2>1 DEF OperationsOf
  <2>3. PICK j \in 1..Len(d.operations) : plans[k].operation = d.operations[j]
    BY <2>1 DEF OperationsOf
  <2>4. i = j
    BY <1>4, <2>2, <2>3 DEF IsDraft
  <2>. QED BY <2>2, <2>3, <2>4 DEF IsDraft, Docs
<1>9. plans[k].onError # None => plans[k].onError.resource # None
  <2>1. ASSUME plans[k].onError # None PROVE plans[k].onError.resource # None
    <3>1. PICK e : plans[k].onError = planRowErrors(e, name)
      BY <1>7, <2>1 DEF Mapped
    <3>. QED BY <3>1, ErrorIsSomething
  <2>. QED BY <2>1
<1>10. BadPath \notin PathsRead(renderResponse(plans[k]))
  BY <1>5 DEF PathsParse, MapsAs
<1>. HIDE DEF plans, resources
<1>. QED BY <1>5, <1>6, <1>7, <1>8, <1>9, <1>10, AllowedBodyMaps

(* The mappings of an emission are those of its plans.                     *)
LEMMA MappingsParse ==
  ASSUME NoneIsNoRecord, NEW d, NEW record, SoundRecord(record), NEW contracts,
         emit(d, record, contracts) # NoFiles,
         \A b \in Bindings(emit(d, record, contracts)) : b.response # None => BadPath \notin PathsRead(b.response)
  PROVE  PathsParse(plansOf(d, record))
<1>. DEFINE plans == plansOf(d, record)
            files == emit(d, record, contracts)
<1>1. PlanList(d, record, plans)
  BY PlansAreKept DEF SoundRecord
<1>2. SUFFICES ASSUME NEW k \in 1..Len(plans), plans[k].resource # None
               PROVE  BadPath \notin PathsRead(renderResponse(plans[k]))
  BY DEF PathsParse
<1>. DEFINE p == FilePath("binding", plans[k].decision.capabilityId)
            own == renderBindingFile(d, record, plans[k], contracts)
<1>3. p \in DOMAIN files
  BY PlansHaveFiles
<1>4. \A k1, k2, n1, n2 : FilePath(k1, n1)[1] = k1 /\ (FilePath(k1, n1) = FilePath(k2, n2) => k1 = k2 /\ n1 = n2)
  BY DEF FilePath
<1>5. files[p] = own
  <2>1. p # CapabilitiesFile
    BY <1>4 DEF CapabilitiesFile
  <2>2. PICK j \in 1..Len(plans) :
          /\ p = FilePath("binding", plans[j].decision.capabilityId)
          /\ files[p] = renderBindingFile(d, record, plans[j], contracts)
    BY <1>3, <1>4, <2>1, EmittedPart
  <2>3. j = k
    BY <1>1, <1>4, <2>2 DEF PlanList
  <2>. QED BY <2>2, <2>3
<1>. HIDE DEF files
<1>6. own \in Bindings(files)
  BY <1>3, <1>4, <1>5 DEF Bindings, FilesOf
<1>7. own.response = renderResponse(plans[k])
  BY <1>2 DEF renderBindingFile
<1>. HIDE DEF own
<1>. QED BY <1>6, <1>7, ResponseIsSomething DEF files

-----------------------------------------------------------------------------
(* The emission keeps its word. *)

(* The run is one of the cases; what a person has answered, and the record *)
(* that is emitted from, are words that the grammars let pass; and where   *)
(* nothing is emitted the run has ended.                                   *)
WordInv ==
  /\ \E c \in Cases : draft = c.draft /\ args = c.args
  /\ run.pc \in {"company", "gate"} => args.record = None
  /\ run.pc \in {"start", "company", "gate"} => \A d \in Docs(run.decisions) : IsDecision(d)
  /\ run.pc = "gate" => providerId(run.record) # None
  /\ run.pc \in {"emit", "staging", "probe", "replay", "commit"} => SoundRecord(run.record)
  /\ run.pc \in {"staging", "probe", "replay"} => args.probe
  /\ FirstEmission => run.files # NoFiles

(* A command starts with a case, and nothing is answered.                  *)
LEMMA WordInit == Init => WordInv
<1>1. Docs(<<>>) = {}
  BY DEF Docs
<1>. QED BY <1>1 DEF Init, WordInv, FirstEmission, Started, NoRun

(* What is appended is the only thing that is new.                         *)
LEMMA AppendedDocs ==
  ASSUME NEW seq, IsSequence(seq), NEW d, NEW e \in Docs(Append(seq, d)) PROVE e \in Docs(seq) \/ e = d
BY SMT DEF IsSequence, Docs

(* A decision is what a person may answer or a file lists, and stays; the  *)
(* run goes on only with files.                                            *)
LEMMA WordStep ==
  ASSUME WordInv, ConsentInv, [Next]_vars PROVE WordInv'
<1>. USE DEF WordInv
<1>1. /\ DOMAIN run = Fields /\ IsSequence(run.decisions)
      /\ run.pc = "gate" => DOMAIN run.record = {"company", "provider", "baseUrlEnvVar", "authEnvVar", "decisions"}
  BY DEF ConsentInv, RunIsRecord, Decided
<1>2. PICK c \in Cases : draft = c.draft /\ args = c.args
  OBVIOUS
<1>3. ASSUME UNCHANGED <<draft, args>>, run'.pc \in {"over", "copy", "report", "done"} PROVE WordInv'
  BY <1>3 DEF FirstEmission
<1>4. ASSUME NEW outcome, Over(outcome), UNCHANGED <<draft, args>> PROVE WordInv'
  <2>1. run'.pc = "over"
    BY <1>4 DEF Over, NoRun
  <2>. QED BY <1>3, <1>4, <2>1
<1>5. CASE UNCHANGED vars \/ AuthorSaves \/ BackendChanges
  <2>1. UNCHANGED <<draft, args, run>>
    BY <1>5 DEF vars, AuthorSaves, BackendChanges
  <2>. QED BY <2>1 DEF FirstEmission
<1>6. CASE runInitCmd
  <2>1. UNCHANGED <<draft, args>> /\ run.pc = "start"
    BY <1>6 DEF runInitCmd, world
  <2>2. CASE Over("refused")
    BY <1>4, <2>1, <2>2
  <2>3. CASE args.record = None /\ Goes("company")
    BY <1>1, <2>1, <2>3 DEF Goes, Fields, FirstEmission
  <2>4. CASE /\ args.record # None /\ validateDecisionRecord(args.record)
             /\ run' = [run EXCEPT !.pc = "emit", !.record = args.record]
    <3>1. run'.pc = "emit" /\ run'.record = args.record
      BY <1>1, <2>4 DEF Fields
    <3>2. args.record \notin {None, Torn}
      BY <2>4 DEF validateDecisionRecord
    <3>3. SoundRecord(args.record)
      BY <1>2, <3>2, RecordAssumption, DecisionAssumption DEF SoundRecord
    <3>. QED BY <2>1, <3>1, <3>3 DEF FirstEmission
  <2>. QED BY <1>6, <2>2, <2>3, <2>4 DEF runInitCmd
<1>7. CASE GateOpens
  <2>1. UNCHANGED <<draft, args>> /\ run.pc = "company"
    BY <1>7 DEF GateOpens, world
  <2>2. CASE Over("refused")
    BY <1>4, <2>1, <2>2
  <2>3. CASE ~Over("refused")
    <3>1. PICK word \in Words :
            run' = [run EXCEPT !.pc = "gate",
                      !.record = [company |-> word, provider |-> None, baseUrlEnvVar |-> None, authEnvVar |-> None, decisions |-> <<>>]]
      BY <1>7, <2>3 DEF GateOpens
    <3>2. /\ run'.pc = "gate" /\ run'.decisions = run.decisions
          /\ run'.record = [company |-> word, provider |-> None, baseUrlEnvVar |-> None, authEnvVar |-> None, decisions |-> <<>>]
      BY <1>1, <3>1 DEF Fields
    <3>3. providerId(run'.record) # None
      <4>1. run'.record.company = word /\ run'.record.provider = None
        BY <3>2
      <4>2. providerId(run'.record) = word \o "-api"
        BY <4>1 DEF providerId
      <4>. QED BY <4>2, DecisionAssumption
    <3>. QED BY <2>1, <3>2, <3>3 DEF FirstEmission
  <2>. QED BY <2>2, <2>3
<1>8. CASE AnswerCandidate
  <2>1. UNCHANGED <<draft, args>> /\ run.pc = "gate"
    BY <1>8 DEF AnswerCandidate, world
  <2>. DEFINE next == draft.operations[Len(run.decisions) + 1]
  <2>2. next.key \in DOMAIN AnsweredIds
    <3>1. /\ IsDraft(draft) /\ args.record = None
          /\ \A operation \in Docs(draft.operations) : operation.key \in DOMAIN AnsweredIds
      BY <1>2, <2>1, DraftAssumption
    <3>2. Len(run.decisions) \in Nat /\ Len(draft.operations) \in Nat
      BY <1>1, <3>1, SequenceIsList DEF IsDraft
    <3>3. Len(run.decisions) < Len(draft.operations)
      BY <1>8 DEF AnswerCandidate
    <3>4. Len(run.decisions) + 1 \in 1..Len(draft.operations)
      BY <3>2, <3>3
    <3>. QED BY <3>1, <3>4 DEF Docs
  <2>. HIDE DEF next
  <2>3. IsDecision(Declined(next))
    BY DEF IsDecision, Declined
  <2>4. ASSUME NEW d \in Answers(next) PROVE IsDecision(d)
    <3>. DEFINE Made(id, effect, locus, probe, again, sample) ==
                  [keep |-> TRUE, operation |-> next.key, capabilityId |-> id, effect |-> effect,
                   responseLocus |-> locus, resourceName |-> None, probe |-> probe,
                   probeNonReadMethodConfirmed |-> again, sampleInput |-> sample]
                loci == {x.at : x \in locusCandidates(next.response)}
                ids == AnsweredIds[next.key]
                effects == {"read", "write"}
                places == IF Cardinality(loci) > 1 THEN loci ELSE {None}
                samples == {{}, InputNames(next)}
    <3>2. Answers(next) = {Made(id, effect, locus, probe, again, sample) :
                             id \in ids, effect \in effects, locus \in places, probe \in BOOLEAN,
                             again \in BOOLEAN, sample \in samples}
      BY DEF Answers
    <3>3. \A id, effect, locus, probe, again, sample :
            /\ Made(id, effect, locus, probe, again, sample).capabilityId = id
            /\ Made(id, effect, locus, probe, again, sample).resourceName = None
      OBVIOUS
    <3>. HIDE DEF Made, ids, effects, places, samples
    <3>4. \E id \in ids, effect \in effects, locus \in places, probe \in BOOLEAN, again \in BOOLEAN, sample \in samples :
            d = Made(id, effect, locus, probe, again, sample)
      BY <3>2, SMT
    <3>5. d.capabilityId \in AnsweredIds[next.key] /\ d.resourceName = None
      BY <3>3, <3>4 DEF ids
    <3>. QED BY <2>2, <3>5, DecisionAssumption DEF IsDecision
  <2>5. PICK d, all : /\ IsDecision(d)
                      /\ run' = [run EXCEPT !.decisions = Append(@, d), !.keepAll = all]
    BY <1>8, <2>3, <2>4 DEF AnswerCandidate, next
  <2>6. run'.pc = "gate" /\ run'.record = run.record /\ run'.decisions = Append(run.decisions, d)
    BY <1>1, <2>1, <2>5 DEF Fields
  <2>7. \A e \in Docs(run'.decisions) : IsDecision(e)
    BY <1>1, <2>1, <2>5, <2>6, AppendedDocs
  <2>. QED BY <2>1, <2>6, <2>7 DEF FirstEmission
<1>9. CASE GateCloses
  <2>1. UNCHANGED <<draft, args>> /\ run.pc = "gate"
    BY <1>9 DEF GateCloses, world
  <2>2. run'.pc = "emit" /\ run'.record = [run.record EXCEPT !.decisions = run.decisions]
    BY <1>9 DEF GateCloses, Started, NoRun
  <2>3. /\ run'.record.decisions = run.decisions
        /\ run'.record.company = run.record.company /\ run'.record.provider = run.record.provider
    BY <1>1, <2>1, <2>2
  <2>4. SoundRecord(run'.record)
    BY <1>1, <2>1, <2>3 DEF SoundRecord, providerId
  <2>. QED BY <2>1, <2>2, <2>4 DEF FirstEmission
<1>10. CASE GateGivesUp \/ InputEnds \/ CopyBreaksOff \/ Killed
  BY <1>4, <1>10 DEF GateGivesUp, InputEnds, CopyBreaksOff, Killed, world
<1>11. CASE EmitFirst
  <2>1. UNCHANGED <<draft, args>> /\ run.pc = "emit"
    BY <1>11 DEF EmitFirst, world
  <2>2. CASE Over("refused")
    BY <1>4, <2>1, <2>2
  <2>3. CASE ~Over("refused")
    <3>1. /\ run'.pc = (IF args.probe THEN "staging" ELSE "commit") /\ run'.record = run.record
          /\ run'.files # NoFiles
      BY <1>1, <1>11, <2>3 DEF EmitFirst, Fields
    <3>. QED BY <2>1, <3>1
  <2>. QED BY <2>2, <2>3
<1>12. CASE StagingCompiles \/ runProbes \/ ProbesDone \/ verifyRecorded \/ ReplaysDone
  <2>1. UNCHANGED <<draft, args>> /\ run.pc \in {"staging", "probe", "replay"} /\ args.probe
    BY <1>12 DEF StagingCompiles, runProbes, ProbesDone, verifyRecorded, ReplaysDone, world
  <2>2. CASE Over("refused")
    BY <1>4, <2>1, <2>2
  <2>3. CASE ~Over("refused")
    <3>1. run'.pc \in {"probe", "replay", "commit"} /\ run'.record = run.record
      BY <1>1, <1>12, <2>3 DEF StagingCompiles, runProbes, Probes, ProbesDone, Goes, verifyRecorded, Replays,
                               ReplaysDone, Fields
    <3>. QED BY <2>1, <3>1 DEF FirstEmission
  <2>. QED BY <2>2, <2>3
<1>13. CASE commitFileSet \/ CopyDone \/ ReportWritten
  <2>1. UNCHANGED <<draft, args>>
    BY <1>13 DEF commitFileSet, CopyDone, ReportWritten, world
  <2>2. run'.pc \in {"over", "copy", "report", "done"}
    BY <1>1, <1>13 DEF commitFileSet, CopyDone, ReportWritten, Over, NoRun, Fields
  <2>. QED BY <1>3, <2>1, <2>2
<1>. QED BY <1>5, <1>6, <1>7, <1>8, <1>9, <1>10, <1>11, <1>12, <1>13 DEF Next

(* The invariants say that the emission keeps its word.                    *)
LEMMA WordKept ==
  ASSUME NoneIsNoRecord, TornIsNoRecord, WordInv, OperationInv PROVE EmittedKeepsItsWord
<1>. SUFFICES ASSUME FirstEmission, \A b \in Emitted : b.response # None => BadPath \notin PathsRead(b.response)
              PROVE  EmittedKeepsItsWord
  BY DEF EmittedKeepsItsWord
<1>1. PICK c \in Cases : draft = c.draft
  BY DEF WordInv
<1>2. SoundRecord(run.record) /\ run.files # NoFiles
  BY DEF WordInv, FirstEmission
<1>3. PICK contracts : run.files = emit(draft, run.record, contracts)
  BY DEF OperationInv, FilesByStage, FirstEmission
<1>4. IsDraft(draft) /\ \A operation \in Docs(draft.operations) : operation.key \in DOMAIN Backend
  BY <1>1, DraftAssumption
<1>5. PathsParse(plansOf(draft, run.record))
  BY <1>2, <1>3, MappingsParse DEF Emitted
<1>6. compileManifest(run.files)
  BY <1>2, <1>3, <1>5, EmissionCompiles
<1>. DEFINE ir == compile(load(toDisk(run.files)))
<1>7. ASSUME NEW t \in Docs(ir.tools), NEW operation \in OperationsOf(draft, t.connector.key),
             NEW json \in Docs(Backend[operation.key]), json # None, Conforms(json, operation.response)
      PROVE  t.response = None \/ applyResponseMapping(t, json, ir.resources).status # "violation"
  <2>1. operation \in Docs(draft.operations)
    BY DEF OperationsOf, Docs
  <2>2. IsBody(json)
    BY <1>4, <1>7, <2>1, BackendAssumption
  <2>. QED BY <1>2, <1>3, <1>4, <1>5, <1>7, <2>2, EmissionMaps
<1>. HIDE DEF ir
<1>. QED BY <1>6, <1>7 DEF EmittedKeepsItsWord, ir

(* At the end of its emission, whatever a person answered or a file        *)
(* decided, what init emitted compiles, and no body that the source allows *)
(* is a violation of the mapping that was emitted for it (emit.ts, d9.ts   *)
(* classifyRequired, against compile.ts, validate.ts and mapping.ts); a    *)
(* mapping whose paths cannot be parsed is left out.                       *)
THEOREM EmittedKeeps ==
  ASSUME NoneIsNoRecord, TornIsNoRecord PROVE Spec => []EmittedKeepsItsWord
<1>1. CommitInv /\ ConsentInv /\ ContractInv /\ OperationInv /\ WordInv /\ [Next]_vars
      => CommitInv' /\ ConsentInv' /\ ContractInv' /\ OperationInv' /\ WordInv'
  <2>1. CommitInv /\ ConsentInv /\ ContractInv /\ [Next]_vars => CommitInv' /\ ConsentInv' /\ ContractInv'
    BY RecordStays, TargetStep, ConsentStep, ContractStep DEF CommitInv, ConsentInv, ContractInv
  <2>. QED BY <2>1, OperationStep, WordStep
<1>2. OperationInv /\ WordInv => EmittedKeepsItsWord
  BY WordKept
<1>. QED BY CommitInit, ConsentInit, ContractInit, OperationInit, WordInit, <1>1, <1>2, PTL DEF Spec
=============================================================================
