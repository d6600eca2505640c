------------------------ MODULE DesktopPublish_proofs ------------------------
(***************************************************************************)
(* Theorems about DesktopPublish: what overlapping edits cannot destroy.   *)
(*                                                                         *)
(* SourceInv says that, unless a write has failed or the application has   *)
(* ended, whatever a handler is yet to write is a whole file: its text     *)
(* comes from a file that was whole when it was opened, and the edit takes *)
(* away only what it is asked to.  A file that is not whole at the moment  *)
(* is being filled by somebody, and who opens it then leaves a mark.       *)
(*                                                                         *)
(* GrantsInv: unless a mark tells otherwise, one handler at a time writes  *)
(* a source file, and what it has read is still what is there (InTurn); so *)
(* what is granted and not there is owed by a writer of the operations.    *)
(*                                                                         *)
(* KeysInv: besides, every token is with the one that it was made for, in  *)
(* the source, in what the handlers carry and in what is installed, and in *)
(* agent-keys.txt under a label of that one.  upsertKey then replaces only *)
(* tokens of the same one, so what the source has is there or is owed.     *)
(*                                                                         *)
(* PublishInv: unless a mark tells otherwise, a request that publishes is  *)
(* alone, the one helper at work is its own, and what that has copied is   *)
(* what the source is (Reached).                                           *)
(*                                                                         *)
(* The types (TypeOK) hold with every mark.  Most actions of a handler     *)
(* give one handler a new record, whose type is all there is to show       *)
(* (Typed); what others have keeps its type when a token is made.          *)
(***************************************************************************)
EXTENDS DesktopPublish, TLAPS, SequenceTheorems, WellFoundedInduction

-----------------------------------------------------------------------------

LEMMA SoundGrows ==
    ASSUME NEW r, NEW before, NEW after, before \subseteq after, Sound(r, before)
    PROVE  Sound(r, after)
  BY DEF Sound, Kept

\* A handler that waits for a request holds nothing.
LEMMA IdleSound ==
    ASSUME NEW marks
    PROVE  Idle.at = "idle" /\ Idle.todo = << >> /\ Sound(Idle, marks)
  BY DEF Idle, Empty, Sound, Files

\* Most steps write no file: then it matters only what becomes of the handler.
LEMMA NoFileWritten ==
    ASSUME SourceSound, NEW h \in Handler, NEW r,
           Becomes(h, r), UNCHANGED file, history \subseteq history',
           ~ At(h, "fill"), r.at # "fill", Sound(r, history')
    PROVE  SourceSound'
  <1>1. DOMAIN req' = Handler /\ req'[h] = r /\ \A k \in Handler \ {h} : req'[k] = req[k]
    BY DEF SourceSound, Becomes
  <1>2. \A k \in Handler : Sound(req'[k], history')
    BY <1>1, SoundGrows DEF SourceSound
  <1>3. ASSUME NEW f PROVE Torn(f) => Torn(f)'
    BY <1>1 DEF Torn, Filling, At
  <1> QED BY <1>1, <1>2, <1>3 DEF SourceSound, Kept

LEMMA InitSound == Init => SourceSound
  BY EditAssumption, IdleSound DEF Init, EditInit, SourceSound, Kept, Files, Whole

\* What has happened stays written down.
LEMMA HistoryGrows == Next => history \subseteq history'
  BY ZenonT(60) DEF Next, OpenConfig, ReceiveOrder, UseAdminToken, Receive, PublishStep, StartHelper,
         Declined, TakeResult, WaitNoLonger, Reload, EditStep, OpenOps, MakeEdit, RefuseEdit,
         Truncate, Fill, WriteFails, EditDone, LabelKey, ReadKeys, KeyRecorded, Untouched,
         HelperStep, ReadSource, TruncateInstalled, FillInstalled, FilesCopied, ControlService,
         HelperFails, HelperAt, Exit, pubVars, editVars

-----------------------------------------------------------------------------
(* The edits.                                                              *)

\* An answered handler holds nothing.
LEMMA AnsweredSound ==
    ASSUME SourceSound, NEW h \in Handler, ~ At(h, "fill"),
           Answer(h), UNCHANGED file, history \subseteq history'
    PROVE  SourceSound'
  BY IdleSound, NoFileWritten DEF Answer

LEMMA OpenOpsSound ==
    ASSUME SourceSound, NEW h \in Handler, OpenOps(h)
    PROVE  SourceSound'
  <1> DEFINE r == [req[h] EXCEPT !.at = "edit", !.seen.ops = file.ops]
  <1>1. history \subseteq history'
    BY DEF OpenOps
  <1>2. Kept(file.ops, history')
    BY DEF OpenOps, SourceSound, Kept
  <1>3. Sound(req[h], history')
    BY <1>1, SoundGrows DEF SourceSound
  <1>4. Sound(r, history') /\ r.at # "fill"
    BY <1>2, <1>3 DEF Sound, Idle, Files
  <1>5. Becomes(h, r) /\ UNCHANGED file /\ ~ At(h, "fill")
    BY DEF OpenOps, At
  <1> QED BY <1>1, <1>4, <1>5, NoFileWritten

\* The text that an edit makes of the operations has all but the one that it is
\* asked to remove.
LEMMA EditKeeps ==
    ASSUME NEW e, NEW ops, NEW marks, Kept(ops, marks), NEW c, NEW p, Permitted(e, c, ops, p)
    PROVE  Kept(EditedOps(e, ops), marks \cup (IF e.kind = "remove" THEN {e.id} ELSE {}))
  BY DEF Kept, EditedOps, Permitted, addOperation

LEMMA ChangedFiles ==
    ASSUME NEW r
    PROVE  Changed(r) \in Seq(Files)
  <1> DEFINE c == IF r.next.config # r.seen.config THEN <<"config">> ELSE << >>
             o == IF r.next.ops # r.seen.ops THEN <<"ops">> ELSE << >>
  <1>1. <<"config">> \in Seq(Files) /\ <<"ops">> \in Seq(Files) /\ << >> \in Seq(Files)
    BY DEF Files
  <1>2. c \o o \in Seq(Files)
    <2>1. c \in Seq(Files) /\ o \in Seq(Files)
      BY <1>1
    <2> HIDE DEF c, o
    <2> QED BY <2>1, ConcatProperties
  <1> QED BY <1>2 DEF Changed

\* An edit that commits leaves a config that loads.
LEMMA MakeEditSound ==
    ASSUME SourceSound, NEW h \in Handler, MakeEdit(h)
    PROVE  SourceSound'
  <1> DEFINE old == req[h]
             e == old.edit
             next == [config |-> EditedConfig(e, old.seen.config, NextToken),
                      ops |-> EditedOps(e, old.seen.ops), keys |-> << >>]
             edited == [old EXCEPT !.at = "write", !.next = next,
                            !.tok = IF TakesToken(e) THEN NextToken ELSE Nil,
                            !.old = IF e.kind = "regenerate" THEN TokenOf(e, old.seen.config) ELSE Nil]
             r == [edited EXCEPT !.todo = Changed(edited)]
  <1>1. Becomes(h, r) /\ UNCHANGED file /\ ~ At(h, "fill") /\ At(h, "edit")
    BY DEF MakeEdit, At
  <1>2. history \subseteq history'
    BY DEF MakeEdit
  <1>3. Sound(old, history)
    BY DEF SourceSound
  <1>4. next.config # Nil
    BY DEF MakeEdit, Commits, Loads
  <1>5. Kept(next.ops, history')
    <2>1. Kept(old.seen.ops, history)
      BY <1>1, <1>3 DEF Sound, At
    <2>2. Kept(next.ops, history \cup (IF e.kind = "remove" THEN {e.id} ELSE {}))
      BY <2>1, EditKeeps DEF MakeEdit, Commits
    <2> QED BY <2>2 DEF MakeEdit, Kept
  <1>6. Changed(edited) \in Seq(Files)
    BY ChangedFiles
  <1>7. /\ r.at = "write" /\ r.next = next /\ r.seen = old.seen /\ r.todo = Changed(edited)
        /\ DOMAIN r = DOMAIN Idle
    BY <1>3 DEF Sound, Idle
  <1>8. DOMAIN next = Files
    BY DEF Files
  <1>9. Sound(r, history')
    <2> HIDE DEF next, edited, r
    <2> QED BY <1>3, <1>4, <1>5, <1>6, <1>7, <1>8 DEF Sound
  <1> HIDE DEF r
  <1> QED BY <1>1, <1>2, <1>7, <1>9, NoFileWritten

\* Who has the edited pair is done with it, records the token or says so.
LEMMA RecordSound ==
    ASSUME SourceSound, NEW h \in Handler,
           RefuseEdit(h) \/ EditDone(h) \/ LabelKey(h) \/ ReadKeys(h) \/ KeyRecorded(h)
    PROVE  SourceSound'
  <1>1. Sound(req[h], history)
    BY DEF SourceSound
  <1>2. CASE RefuseEdit(h) \/ EditDone(h)
    BY <1>2, AnsweredSound DEF RefuseEdit, EditDone, Untouched, At
  <1>3. CASE LabelKey(h)
    <2>1. PICK label : Becomes(h, [req[h] EXCEPT !.at = "keys", !.label = label])
      BY <1>3 DEF LabelKey
    <2> DEFINE r == [req[h] EXCEPT !.at = "keys", !.label = label]
    <2>2. Sound(r, history) /\ r.at # "fill"
      BY <1>1 DEF Sound, Idle
    <2> QED BY <1>3, <2>1, <2>2, NoFileWritten DEF LabelKey, Untouched, At
  <1>4. CASE ReadKeys(h)
    <2>1. PICK keys : Becomes(h, [req[h] EXCEPT !.at = "write", !.todo = <<"keys">>,
                                        !.seen.keys = file.keys, !.next.keys = keys])
      BY <1>4 DEF ReadKeys
    <2> DEFINE r == [req[h] EXCEPT !.at = "write", !.todo = <<"keys">>,
                                   !.seen.keys = file.keys, !.next.keys = keys]
    <2>2. /\ DOMAIN r = DOMAIN Idle /\ DOMAIN r.seen = Files /\ DOMAIN r.next = Files
          /\ r.at = "write" /\ r.todo = <<"keys">>
      BY <1>1 DEF Sound, Idle, Files
    <2>3. Sound(r, history)
      <3> HIDE DEF r
      <3> QED BY <2>2 DEF Sound, Files
    <2> HIDE DEF r
    <2> QED BY <1>4, <2>1, <2>2, <2>3, NoFileWritten DEF ReadKeys, Untouched, At, r
  <1>5. CASE KeyRecorded(h)
    <2> DEFINE r == [req[h] EXCEPT !.at = "publish"]
    <2>1. Sound(r, history) /\ r.at # "fill"
      BY <1>1 DEF Sound, Idle
    <2>2. UNCHANGED <<file, history>> /\ ~ At(h, "fill")
      BY <1>5 DEF KeyRecorded, At
    <2>3. Becomes(h, r) \/ Answer(h)
      BY <1>5 DEF KeyRecorded, Goes
    <2> QED BY <2>1, <2>2, <2>3, NoFileWritten, AnsweredSound
  <1> QED BY <1>2, <1>3, <1>4, <1>5

-----------------------------------------------------------------------------
(* The writes.                                                             *)

\* What is at the head of the list is being written, whoever writes something
\* else meanwhile.
LEMMA HeadOfTodo ==
    ASSUME NEW r, NEW marks, Sound(r, marks), r.todo # << >>
    PROVE  /\ Head(r.todo) \in Files
           /\ Head(r.todo) = "config" => r.next.config # Nil
           /\ Head(r.todo) = "ops" => Kept(r.next.ops, marks)
  <1>1. Head(r.todo) = r.todo[1] /\ 1 \in DOMAIN r.todo /\ r.todo[1] \in Files
    BY DEF Sound
  <1> QED BY <1>1 DEF Sound

\* From the moment a file is emptied somebody is going to fill it.
LEMMA TruncateSound ==
    ASSUME SourceSound, NEW h \in Handler, Truncate(h)
    PROVE  SourceSound'
  <1> DEFINE r == [req[h] EXCEPT !.at = "fill"]
             f == Head(req[h].todo)
  <1>1. Sound(req[h], history) /\ history \subseteq history' /\ req[h].todo # << >>
    BY DEF SourceSound, Truncate
  <1>2. req[h].at = "write" /\ Becomes(h, r) /\ file' = [file EXCEPT ![f] = Empty[f]]
    BY DEF Truncate, Goes, At
  <1>3. r.todo = req[h].todo /\ r.at = "fill" /\ Sound(r, history')
    BY <1>1 DEF Sound, Idle, Kept
  <1>4. DOMAIN req' = Handler /\ req'[h] = r /\ \A k \in Handler \ {h} : req'[k] = req[k]
    BY <1>2 DEF SourceSound, Becomes
  <1>5. \A k \in Handler : Sound(req'[k], history')
    BY <1>1, <1>3, <1>4, SoundGrows DEF SourceSound
  <1>6. \A g : Torn(g) => Torn(g)'
    BY <1>2, <1>4 DEF Torn, Filling, At
  <1>7. \A g : g = f => Torn(g)'
    BY <1>3, <1>4 DEF Torn, Filling, At
  <1>8. DOMAIN file' = Files /\ \A g \in Files \ {f} : file'[g] = file[g]
    BY <1>2 DEF SourceSound
  <1>9. file'.config # Nil \/ Torn("config")'
    BY <1>6, <1>7, <1>8 DEF SourceSound, Files
  <1>10. Kept(file'.ops, history') \/ Torn("ops")'
    BY <1>1, <1>6, <1>7, <1>8 DEF SourceSound, Files, Kept
  <1> QED BY <1>4, <1>5, <1>8, <1>9, <1>10 DEF SourceSound

LEMMA FillSound ==
    ASSUME SourceSound, NEW h \in Handler, Fill(h)
    PROVE  SourceSound'
  <1> DEFINE old == req[h]
             f == Head(old.todo)
             r == [old EXCEPT !.at = "write", !.todo = Tail(@), !.seen[f] = old.next[f]]
  <1>1. Sound(old, history) /\ history' = history /\ old.todo # << >>
    BY DEF SourceSound, Fill, Sound, At
  <1>2. old.at = "fill" /\ Becomes(h, r) /\ file' = [file EXCEPT ![f] = old.next[f]]
    BY DEF Fill, At
  <1>3. f \in Files
    BY <1>1, HeadOfTodo
  <1>4. /\ DOMAIN r = DOMAIN Idle /\ DOMAIN r.seen = Files /\ r.next = old.next
        /\ r.at = "write" /\ r.todo = Tail(old.todo)
    BY <1>1, <1>3 DEF Sound, Idle
  <1>5. Sound(r, history)
    <2>1. /\ Tail(old.todo) \in Seq(Files)
          /\ \A i \in DOMAIN Tail(old.todo) : i + 1 \in DOMAIN old.todo /\ Tail(old.todo)[i] = old.todo[i + 1]
      BY <1>1 DEF Sound
    <2> HIDE DEF r
    <2> QED BY <1>1, <1>4, <2>1 DEF Sound
  <1>6. DOMAIN req' = Handler /\ req'[h] = r /\ \A k \in Handler \ {h} : req'[k] = req[k]
    BY <1>2 DEF SourceSound, Becomes
  <1>7. \A k \in Handler : Sound(req'[k], history')
    BY <1>1, <1>5, <1>6 DEF SourceSound
  <1>8. \A g : g # f /\ Torn(g) => Torn(g)'
    BY <1>6 DEF Torn, Filling, At
  <1>9. DOMAIN file' = Files /\ file'[f] = old.next[f] /\ \A g \in Files \ {f} : file'[g] = file[g]
    BY <1>2, <1>3 DEF SourceSound
  <1>10. file'.config # Nil \/ Torn("config")'
    BY <1>1, <1>8, <1>9, HeadOfTodo DEF SourceSound, Files
  <1>11. Kept(file'.ops, history') \/ Torn("ops")'
    BY <1>1, <1>8, <1>9, HeadOfTodo DEF SourceSound, Files
  <1> QED BY <1>6, <1>7, <1>9, <1>10, <1>11 DEF SourceSound

-----------------------------------------------------------------------------
(* Requests and publishing, which write no source file.                    *)

\* Whoever takes a request has nothing to write yet.
LEMMA ReceiveSound ==
    ASSUME SourceSound, NEW h \in Handler,
           OpenConfig(h) \/ ReceiveOrder(h) \/ UseAdminToken(h)
    PROVE  SourceSound'
  <1>1. /\ At(h, "idle") /\ UNCHANGED file /\ history \subseteq history'
    BY DEF OpenConfig, ReceiveOrder, UseAdminToken, Receive
  <1>2. ASSUME NEW r, Becomes(h, r), Sound(r, history'), r.at # "fill"
        PROVE  SourceSound'
    BY <1>1, <1>2, NoFileWritten DEF At
  <1>3. ASSUME NEW e, NEW c, Becomes(h, [Idle EXCEPT !.at = "ops", !.edit = e, !.seen.config = c])
        PROVE  SourceSound'
    <2> DEFINE r == [Idle EXCEPT !.at = "ops", !.edit = e, !.seen.config = c]
    <2>1. Sound(r, history') /\ r.at # "fill"
      BY DEF Sound, Idle, Empty, Files
    <2> QED BY <1>2, <1>3, <2>1
  <1>4. ASSUME NEW e, NEW t,
               Becomes(h, [Idle EXCEPT !.at = "keys", !.edit = e, !.tok = t, !.label = AdminLabel])
        PROVE  SourceSound'
    <2> DEFINE r == [Idle EXCEPT !.at = "keys", !.edit = e, !.tok = t, !.label = AdminLabel]
    <2>1. Sound(r, history') /\ r.at # "fill"
      BY DEF Sound, Idle, Empty, Files
    <2> QED BY <1>2, <1>4, <2>1
  <1>5. CASE Becomes(h, Idle)
    <2>1. Sound(Idle, history') /\ Idle.at # "fill"
      BY IdleSound
    <2> QED BY <1>2, <1>5, <2>1
  <1>6. CASE OpenConfig(h)
    BY <1>3, <1>6 DEF OpenConfig, Receive
  <1>7. CASE ReceiveOrder(h)
    <2>1. PICK e \in Order : e.kind \in {"publish", "service"}
                                /\ Receive(h, [Idle EXCEPT !.at = e.kind, !.edit = e])
      BY <1>7 DEF ReceiveOrder
    <2> DEFINE r == [Idle EXCEPT !.at = e.kind, !.edit = e]
    <2>2. Becomes(h, r)
      BY <2>1 DEF Receive
    <2>3. Sound(r, history') /\ r.at # "fill"
      BY <2>1 DEF Sound, Idle, Empty, Files
    <2> HIDE DEF r
    <2> QED BY <1>2, <2>2, <2>3
  <1>8. CASE UseAdminToken(h)
    <2>1. PICK e \in Order : Receive(h, IF ~ e.remember THEN Idle
                       ELSE [Idle EXCEPT !.at = "keys", !.edit = e, !.tok = inst.config.admin,
                                         !.label = AdminLabel])
      BY <1>8 DEF UseAdminToken
    <2>2. CASE ~ e.remember
      BY <1>5, <2>1, <2>2 DEF Receive
    <2>3. CASE e.remember
      <3>1. Becomes(h, [Idle EXCEPT !.at = "keys", !.edit = e, !.tok = inst.config.admin,
                                    !.label = AdminLabel])
        BY <2>1, <2>3 DEF Receive
      <3> QED BY <1>4, <3>1
    <2> QED BY <2>2, <2>3
  <1> QED BY <1>6, <1>7, <1>8

LEMMA PublishStepSound ==
    ASSUME SourceSound, NEW h \in Handler, PublishStep(h)
    PROVE  SourceSound'
  <1>1. Sound(req[h], history)
    BY DEF SourceSound
  <1>2. UNCHANGED file /\ history \subseteq history' /\ ~ At(h, "fill")
    BY DEF PublishStep, StartHelper, Declined, TakeResult, WaitNoLonger, Reload, At, pubVars
  <1>3. \/ Answer(h)
        \/ \E i : Becomes(h, [req[h] EXCEPT !.at = "wait", !.helper = i])
        \/ Becomes(h, [req[h] EXCEPT !.at = "reload", !.helper = 0])
        \/ Becomes(h, [req[h] EXCEPT !.at = "service", !.label = "restart"])
    BY DEF PublishStep, StartHelper, Declined, TakeResult, WaitNoLonger, Refused, Reload
  <1>4. Sound(req[h], history')
    BY <1>1, <1>2, SoundGrows
  <1>5. ASSUME NEW r, Becomes(h, r), Sound(r, history'), r.at # "fill"
        PROVE  SourceSound'
    BY <1>2, <1>5, NoFileWritten
  <1>6. \A i : LET r == [req[h] EXCEPT !.at = "wait", !.helper = i]
               IN  Sound(r, history') /\ r.at # "fill"
    BY <1>4 DEF Sound, Idle
  <1>7. LET r == [req[h] EXCEPT !.at = "reload", !.helper = 0]
        IN  Sound(r, history') /\ r.at # "fill"
    BY <1>4 DEF Sound, Idle
  <1>8. LET r == [req[h] EXCEPT !.at = "service", !.label = "restart"]
        IN  Sound(r, history') /\ r.at # "fill"
    BY <1>4 DEF Sound, Idle
  <1> QED BY <1>2, <1>3, <1>5, <1>6, <1>7, <1>8, AnsweredSound

LEMMA HelperSound ==
    ASSUME SourceSound, NEW i, HelperStep(i)
    PROVE  SourceSound'
  <1>1. UNCHANGED <<file, req, history>>
    BY DEF HelperStep, ReadSource, TruncateInstalled, FillInstalled, FilesCopied,
           ControlService, HelperFails, HelperAt, editVars
  <1> QED BY <1>1 DEF SourceSound, Torn, Filling, At

\* An application that ends with no handler at work leaves no file empty.
LEMMA ExitSound ==
    ASSUME SourceSound, Exit
    PROVE  SourceSound' \/ "exit" \in history'
  <1> SUFFICES ASSUME "exit" \notin history' PROVE SourceSound'
    OBVIOUS
  <1>1. \A h \in Handler : At(h, "idle")
    BY DEF Exit
  <1>2. \A f : ~ Torn(f)
    BY <1>1 DEF Torn, Filling, At
  <1>3. UNCHANGED file /\ history \subseteq history'
    BY DEF Exit
  <1>4. req' = [h \in Handler |-> Idle]
    BY DEF Exit
  <1>5. \A h \in Handler : Sound(req'[h], history')
    BY <1>4, IdleSound
  <1> QED BY <1>2, <1>3, <1>4, <1>5 DEF SourceSound, Kept

-----------------------------------------------------------------------------

LEMMA SourceStep == SourceInv /\ [Next]_vars => SourceInv'
  <1> SUFFICES ASSUME SourceInv, [Next]_vars PROVE SourceInv'
    OBVIOUS
  <1>1. CASE UNCHANGED vars
    BY <1>1 DEF vars, editVars, pubVars, SourceInv, SourceSound, Excused, Torn, Filling, At
  <1>2. CASE Next
    <2>1. CASE Excused({"failed", "exit"})
      BY <1>2, <2>1, HistoryGrows DEF SourceInv, Excused
    <2>2. CASE SourceSound
      <3>1. ASSUME NEW h \in Handler, EditStep(h) PROVE SourceInv'
        <4>1. CASE WriteFails(h)
          BY <4>1 DEF WriteFails, SourceInv, Excused
        <4>2. CASE OpenOps(h)
          BY <2>2, <4>2, OpenOpsSound DEF SourceInv
        <4>3. CASE MakeEdit(h)
          BY <2>2, <4>3, MakeEditSound DEF SourceInv
        <4>4. CASE RefuseEdit(h) \/ EditDone(h) \/ LabelKey(h) \/ ReadKeys(h) \/ KeyRecorded(h)
          BY <2>2, <4>4, RecordSound DEF SourceInv
        <4>5. CASE Truncate(h)
          BY <2>2, <4>5, TruncateSound DEF SourceInv
        <4>6. CASE Fill(h)
          BY <2>2, <4>6, FillSound DEF SourceInv
        <4> QED BY <3>1, <4>1, <4>2, <4>3, <4>4, <4>5, <4>6 DEF EditStep
      <3>2. ASSUME NEW h \in Handler, OpenConfig(h) \/ ReceiveOrder(h) \/ UseAdminToken(h)
            PROVE  SourceInv'
        BY <2>2, <3>2, ReceiveSound DEF SourceInv
      <3>3. ASSUME NEW h \in Handler, PublishStep(h) PROVE SourceInv'
        BY <2>2, <3>3, PublishStepSound DEF SourceInv
      <3>4. ASSUME NEW i, HelperStep(i) PROVE SourceInv'
        BY <2>2, <3>4, HelperSound DEF SourceInv
      <3>5. CASE Exit
        BY <2>2, <3>5, ExitSound DEF SourceInv, Excused
      <3> QED BY <1>2, <3>1, <3>2, <3>3, <3>4, <3>5 DEF Next
    <2> QED BY <2>1, <2>2 DEF SourceInv
  <1> QED BY <1>1, <1>2

\* However edits overlap, for any number of handlers, edits and orders, the
\* config is never lost and an operation only when it was removed, or the file
\* opened in the middle of a write, unless a write fails or is cut off.
THEOREM SourceAlwaysSurvives == Spec => []SourceSurvives
  <1>1. Init => SourceInv
    BY InitSound DEF SourceInv
  <1>2. SourceInv => SourceSurvives
    BY DEF SourceInv, SourceSound, SourceSurvives, Kept, Writing
  <1> QED BY <1>1, <1>2, SourceStep, PTL DEF Spec

-----------------------------------------------------------------------------
(* One handler at a time.                                                  *)

LEMMA NothingDue ==
    ASSUME NEW r, r.todo = << >>
    PROVE  \A f : ~ Due(r, f)
  BY DEF Due

LEMMA OneDue ==
    ASSUME NEW r, NEW f, r.todo = <<f>>
    PROVE  r.todo # << >> /\ Head(r.todo) = f /\ Tail(r.todo) = << >> /\ \A g : Due(r, g) <=> g = f
  BY DEF Due

LEMMA TwoDue ==
    ASSUME NEW r, r.todo = <<"config", "ops">>
    PROVE  /\ r.todo # << >> /\ Head(r.todo) = "config" /\ Tail(r.todo) = <<"ops">>
           /\ \A g : Due(r, g) <=> g \in {"config", "ops"}
  BY DEF Due

\* What a handler may have to do, file by file.
LEMMA DueForms ==
    ASSUME NEW r, r.todo \in Todos
    PROVE  \/ r.todo = << >> /\ \A f : ~ Due(r, f)
           \/ /\ r.todo # << >> /\ Head(r.todo) \in Files /\ Due(r, Head(r.todo))
              /\ Tail(r.todo) = << >> /\ \A f : Due(r, f) <=> f = Head(r.todo)
           \/ /\ r.todo # << >> /\ Head(r.todo) = "config" /\ Tail(r.todo) = <<"ops">>
              /\ \A f : Due(r, f) <=> f \in {"config", "ops"}
  <1>1. CASE r.todo = << >>
    BY <1>1, NothingDue
  <1>2. CASE r.todo = <<"config", "ops">>
    BY <1>2, TwoDue
  <1>3. ASSUME NEW f \in Files, r.todo = <<f>>
        PROVE  /\ r.todo # << >> /\ Head(r.todo) \in Files /\ Due(r, Head(r.todo))
               /\ Tail(r.todo) = << >> /\ \A g : Due(r, g) <=> g = Head(r.todo)
    BY <1>3, OneDue
  <1> QED BY <1>1, <1>2, <1>3 DEF Todos, Files

LEMMA ChangedForms ==
    ASSUME NEW r
    PROVE  Changed(r) = IF r.next.config # r.seen.config
                        THEN IF r.next.ops # r.seen.ops THEN <<"config", "ops">> ELSE <<"config">>
                        ELSE IF r.next.ops # r.seen.ops THEN <<"ops">> ELSE << >>
  <1>1. \A s \in Seq(Files) : s \o << >> = s /\ << >> \o s = s
    BY ConcatEmptySeq
  <1>2. << >> \in Seq(Files) /\ <<"config">> \in Seq(Files) /\ <<"ops">> \in Seq(Files)
    BY DEF Files
  <1>3. <<"config">> \o <<"ops">> = <<"config", "ops">>
    <2> DEFINE s == <<"config">>
               t == <<"ops">>
               u == <<"config", "ops">>
    <2>1. /\ s \in Seq(Files) /\ Len(s) = 1 /\ s[1] = "config"
          /\ t \in Seq(Files) /\ Len(t) = 1 /\ t[1] = "ops"
          /\ u \in Seq(Files) /\ Len(u) = 2 /\ u[1] = "config" /\ u[2] = "ops"
      BY DEF Files
    <2> HIDE DEF s, t, u
    <2>2. /\ s \o t \in Seq(Files) /\ Len(s \o t) = 2
          /\ \A i \in 1..2 : (s \o t)[i] = IF i <= 1 THEN s[i] ELSE t[i - 1]
      BY <2>1, ConcatProperties
    <2>3. \A i \in 1..2 : (s \o t)[i] = u[i]
      <3>1. \A i \in 1..2 : i = 1 \/ i = 2
        OBVIOUS
      <3> QED BY <2>1, <2>2, <3>1
    <2>4. s \o t = u
      BY <2>1, <2>2, <2>3, SeqEqual
    <2> QED BY <2>4 DEF s, t, u
  <1> QED BY <1>1, <1>2, <1>3, Zenon DEF Changed

\* A handler with nothing to write.
LEMMA FormedQuiet ==
    ASSUME NEW r, NEW marks,
           DOMAIN r = DOMAIN Idle, DOMAIN r.seen = Files, DOMAIN r.next = Files, r.todo = << >>,
           r.seen.config = Nil \/ Whole(r.seen.config), r.at # "fill",
           r.at \in {"ops", "edit"} => ~ Recorded(r)
    PROVE  Formed(r, marks)
  BY NothingDue DEF Formed, Todos

LEMMA FormedGrows ==
    ASSUME NEW r, NEW before, NEW after, before \subseteq after, Formed(r, before)
    PROVE  Formed(r, after)
  BY DEF Formed, Fits

LEMMA IdleFormed == ASSUME NEW marks PROVE Formed(Idle, marks)
  BY FormedQuiet DEF Idle, Empty, Files

\* A step that fills and empties nothing.
LEMMA NothingFilled ==
    ASSUME InTurn, NEW h \in Handler, NEW r, Becomes(h, r), ~ At(h, "fill"), r.at # "fill"
    PROVE  /\ DOMAIN req' = Handler /\ req'[h] = r /\ \A k \in Handler \ {h} : req'[k] = req[k]
           /\ \A k \in Handler : \A f : Filling(k, f)' <=> Filling(k, f)
           /\ \A f : Torn(f)' <=> Torn(f)
           /\ UNCHANGED file => Sources' = Sources
  <1>1. DOMAIN req' = Handler /\ req'[h] = r /\ \A k \in Handler \ {h} : req'[k] = req[k]
    BY DEF InTurn, Becomes
  <1>2. \A k \in Handler : \A f : Filling(k, f)' <=> Filling(k, f)
    BY <1>1 DEF Filling, At
  <1>3. \A f : Torn(f)' <=> Torn(f)
    BY <1>2 DEF Torn
  <1>4. ASSUME UNCHANGED file PROVE Sources' = Sources
    <2>1. \A k \in Handler : Filling(k, "config") => req'[k] = req[k]
      BY <1>1 DEF Filling, At
    <2> DEFINE F == {k \in Handler : Filling(k, "config")}
    <2>2. F' = F
      BY <1>2
    <2>3. {req[k].next.config : k \in F}' = {req[k].next.config : k \in F}
      BY <2>1, <2>2
    <2> QED BY <1>4, <2>3 DEF Sources
  <1> QED BY <1>1, <1>2, <1>3, <1>4

LEMMA QuietInTurn ==
    ASSUME InTurn, NEW h \in Handler, NEW r, Becomes(h, r), UNCHANGED file,
           history \subseteq history', ~ At(h, "fill"), r.at # "fill", Formed(r, history')
    PROVE  InTurn'
  <1>1. /\ DOMAIN req' = Handler /\ req'[h] = r /\ \A k \in Handler \ {h} : req'[k] = req[k]
        /\ \A k \in Handler : \A f : Filling(k, f)' <=> Filling(k, f)
        /\ \A f : Torn(f)' <=> Torn(f)
    BY NothingFilled
  <1>2. \A k \in Handler : Formed(req'[k], history')
    BY <1>1, FormedGrows DEF InTurn
  <1>3. OneWriter("config")' /\ OneWriter("ops")'
    BY <1>1 DEF InTurn, OneWriter
  <1> QED BY <1>1, <1>2, <1>3 DEF InTurn

\* The same handler at another place, with nothing to write.
LEMMA FormedMoved ==
    ASSUME NEW r, NEW q, NEW marks, Formed(r, marks), r.todo = << >>,
           DOMAIN q = DOMAIN Idle, q.todo = r.todo, q.seen = r.seen, q.next = r.next,
           q.at \notin {"fill", "ops", "edit"}
    PROVE  Formed(q, marks)
  BY FormedQuiet DEF Formed

\* Steps that touch no source file and prepare no edit: the handler had nothing
\* to write, and has at most a key to write.
Quiet(h, r) ==
    /\ Becomes(h, r) /\ UNCHANGED file /\ history \subseteq history'
    /\ ~ At(h, "fill") /\ r.at # "fill" /\ req[h].todo = << >>
    /\ Formed(r, history')

LEMMA QuietAnswer ==
    ASSUME NEW h \in Handler, Answer(h), UNCHANGED file, history \subseteq history',
           ~ At(h, "fill"), req[h].todo = << >>
    PROVE  Quiet(h, Idle)
  BY IdleFormed DEF Answer, Quiet, Idle

LEMMA NothingToDo ==
    ASSUME InTurn, NEW h \in Handler, req[h].at \notin {"write", "fill"}
    PROVE  req[h].todo = << >> /\ ~ At(h, "fill")
  BY DEF InTurn, Formed, At

LEMMA ReceiveQuiet ==
    ASSUME InTurn, NEW h \in Handler, OpenConfig(h) \/ ReceiveOrder(h) \/ UseAdminToken(h)
    PROVE  \E r : Quiet(h, r) /\ r.todo = << >>
  <1>1. /\ At(h, "idle") /\ UNCHANGED file /\ history \subseteq history'
    BY DEF OpenConfig, ReceiveOrder, UseAdminToken, Receive
  <1>2. req[h].todo = << >> /\ ~ At(h, "fill")
    BY <1>1, NothingToDo DEF At
  <1>3. ASSUME NEW r, Becomes(h, r), Formed(r, history'), r.at # "fill", r.todo = << >>
        PROVE  \E q : Quiet(h, q) /\ q.todo = << >>
    BY <1>1, <1>2, <1>3 DEF Quiet
  <1>4. CASE OpenConfig(h)
    <2>1. PICK e \in Edit : Receive(h, [Idle EXCEPT !.at = "ops", !.edit = e, !.seen.config = file.config])
      BY <1>4 DEF OpenConfig
    <2> DEFINE r == [Idle EXCEPT !.at = "ops", !.edit = e, !.seen.config = file.config]
    <2>2. /\ DOMAIN r = DOMAIN Idle /\ DOMAIN r.seen = Files /\ DOMAIN r.next = Files
          /\ r.todo = << >> /\ r.at = "ops" /\ r.seen.config = file.config
          /\ ~ Recorded(r)
      BY DEF Idle, Empty, Files, Recorded
    <2>3. Becomes(h, r)
      BY <2>1 DEF Receive
    <2> HIDE DEF r
    <2>4. Formed(r, history')
      BY <2>2, FormedQuiet DEF InTurn
    <2> QED BY <1>3, <2>2, <2>3, <2>4
  <1>5. CASE ReceiveOrder(h)
    <2>1. PICK e \in Order : e.kind \in {"publish", "service"}
                                /\ Receive(h, [Idle EXCEPT !.at = e.kind, !.edit = e])
      BY <1>5 DEF ReceiveOrder
    <2> DEFINE r == [Idle EXCEPT !.at = e.kind, !.edit = e]
    <2>2. /\ DOMAIN r = DOMAIN Idle /\ r.seen = Idle.seen /\ r.next = Idle.next /\ r.todo = Idle.todo
          /\ r.at \notin {"fill", "ops", "edit"} /\ Idle.todo = << >>
      BY <2>1 DEF Idle
    <2>3. Becomes(h, r)
      BY <2>1 DEF Receive
    <2> HIDE DEF r
    <2>4. Formed(r, history')
      BY <2>2, FormedMoved, IdleFormed
    <2> QED BY <1>3, <2>2, <2>3, <2>4
  <1>6. CASE UseAdminToken(h)
    <2>1. PICK e \in Order : Receive(h, IF ~ e.remember THEN Idle
                       ELSE [Idle EXCEPT !.at = "keys", !.edit = e, !.tok = inst.config.admin,
                                         !.label = AdminLabel])
      BY <1>6 DEF UseAdminToken
    <2> DEFINE r == [Idle EXCEPT !.at = "keys", !.edit = e, !.tok = inst.config.admin, !.label = AdminLabel]
    <2>2. /\ DOMAIN r = DOMAIN Idle /\ r.seen = Idle.seen /\ r.next = Idle.next /\ r.todo = Idle.todo
          /\ r.at \notin {"fill", "ops", "edit"} /\ Idle.todo = << >> /\ Idle.at # "fill"
      BY DEF Idle
    <2>3. Becomes(h, r) \/ Becomes(h, Idle)
      BY <2>1 DEF Receive
    <2> HIDE DEF r
    <2>4. Formed(r, history') /\ Formed(Idle, history')
      BY <2>2, FormedMoved, IdleFormed
    <2> QED BY <1>3, <2>2, <2>3, <2>4
  <1> QED BY <1>4, <1>5, <1>6

LEMMA PublishQuiet ==
    ASSUME InTurn, NEW h \in Handler, PublishStep(h)
    PROVE  \E r : Quiet(h, r) /\ r.todo = << >>
  <1>1. UNCHANGED file /\ history \subseteq history' /\ req[h].at \in {"publish", "service", "wait", "reload"}
    BY DEF PublishStep, StartHelper, Declined, TakeResult, WaitNoLonger, Reload, At, pubVars
  <1>2. req[h].todo = << >> /\ ~ At(h, "fill")
    BY <1>1, NothingToDo
  <1>3. \/ Answer(h)
        \/ \E i : Becomes(h, [req[h] EXCEPT !.at = "wait", !.helper = i])
        \/ Becomes(h, [req[h] EXCEPT !.at = "reload", !.helper = 0])
        \/ Becomes(h, [req[h] EXCEPT !.at = "service", !.label = "restart"])
    BY DEF PublishStep, StartHelper, Declined, TakeResult, WaitNoLonger, Refused, Reload
  <1>4. Formed(req[h], history') /\ DOMAIN req[h] = DOMAIN Idle
    BY <1>1, FormedGrows DEF InTurn, Formed
  <1>5. ASSUME NEW r, Becomes(h, r), DOMAIN r = DOMAIN Idle, r.todo = req[h].todo, r.seen = req[h].seen,
               r.next = req[h].next, r.at \notin {"fill", "ops", "edit"}
        PROVE  \E q : Quiet(h, q) /\ q.todo = << >>
    <2>1. Formed(r, history')
      BY <1>2, <1>4, <1>5, FormedMoved
    <2> QED BY <1>1, <1>2, <1>5, <2>1 DEF Quiet
  <1>6. CASE Answer(h)
    BY <1>1, <1>2, <1>6, QuietAnswer DEF Idle
  <1>7. CASE \E i : Becomes(h, [req[h] EXCEPT !.at = "wait", !.helper = i])
    <2>1. PICK i : Becomes(h, [req[h] EXCEPT !.at = "wait", !.helper = i])
      BY <1>7
    <2> QED BY <1>4, <1>5, <2>1 DEF Idle
  <1>8. CASE Becomes(h, [req[h] EXCEPT !.at = "reload", !.helper = 0])
    BY <1>4, <1>5, <1>8 DEF Idle
  <1>9. CASE Becomes(h, [req[h] EXCEPT !.at = "service", !.label = "restart"])
    BY <1>4, <1>5, <1>9 DEF Idle
  <1> QED BY <1>3, <1>6, <1>7, <1>8, <1>9

LEMMA EditQuiet ==
    ASSUME InTurn, NEW h \in Handler,
           OpenOps(h) \/ RefuseEdit(h) \/ EditDone(h) \/ LabelKey(h) \/ KeyRecorded(h)
    PROVE  \E r : Quiet(h, r) /\ r.todo = << >>
  <1>1. UNCHANGED file /\ history \subseteq history' /\ ~ At(h, "fill")
    BY DEF OpenOps, RefuseEdit, EditDone, LabelKey, KeyRecorded, Untouched, At
  <1>2. req[h].todo = << >>
    BY NothingToDo DEF OpenOps, RefuseEdit, EditDone, LabelKey, KeyRecorded, At
  <1>3. /\ Formed(req[h], history') /\ DOMAIN req[h] = DOMAIN Idle /\ DOMAIN req[h].seen = Files
    BY <1>1, FormedGrows DEF InTurn, Formed
  <1>4. ASSUME NEW r, Becomes(h, r), DOMAIN r = DOMAIN Idle, r.todo = req[h].todo, r.seen = req[h].seen,
               r.next = req[h].next, r.at \notin {"fill", "ops", "edit"}
        PROVE  \E q : Quiet(h, q) /\ q.todo = << >>
    <2>1. Formed(r, history')
      BY <1>2, <1>3, <1>4, FormedMoved
    <2> QED BY <1>1, <1>2, <1>4, <2>1 DEF Quiet
  <1>5. CASE Answer(h)
    BY <1>1, <1>2, <1>5, QuietAnswer DEF Idle
  <1>6. CASE OpenOps(h)
    <2> DEFINE r == [req[h] EXCEPT !.at = "edit", !.seen.ops = file.ops]
    <2>1. Becomes(h, r) /\ At(h, "ops")
      BY <1>6 DEF OpenOps
    <2>2. /\ DOMAIN r = DOMAIN Idle /\ DOMAIN r.seen = Files /\ r.next = req[h].next /\ r.todo = << >>
          /\ r.at = "edit" /\ r.seen.config = req[h].seen.config /\ r.seen.keys = req[h].seen.keys
      BY <1>2, <1>3 DEF Idle, Files
    <2> HIDE DEF r
    <2>3. Formed(r, history')
      BY <1>3, <2>1, <2>2, FormedQuiet DEF Formed, Recorded, At
    <2> QED BY <1>1, <1>2, <2>1, <2>2, <2>3 DEF Quiet
  <1>7. CASE LabelKey(h)
    <2>1. PICK label : Becomes(h, [req[h] EXCEPT !.at = "keys", !.label = label])
      BY <1>7 DEF LabelKey
    <2> QED BY <1>3, <1>4, <2>1 DEF Idle
  <1>8. CASE Becomes(h, [req[h] EXCEPT !.at = "publish"])
    BY <1>3, <1>4, <1>8 DEF Idle
  <1> QED BY <1>5, <1>6, <1>7, <1>8 DEF RefuseEdit, EditDone, KeyRecorded, Goes

LEMMA ReadKeysQuiet ==
    ASSUME InTurn, NEW h \in Handler, ReadKeys(h)
    PROVE  \E r : Quiet(h, r) /\ r.todo = <<"keys">>
  <1>1. PICK keys : Becomes(h, [req[h] EXCEPT !.at = "write", !.todo = <<"keys">>,
                                        !.seen.keys = file.keys, !.next.keys = keys])
    BY DEF ReadKeys
  <1> DEFINE r == [req[h] EXCEPT !.at = "write", !.todo = <<"keys">>,
                                 !.seen.keys = file.keys, !.next.keys = keys]
  <1>2. Formed(req[h], history)
    BY DEF InTurn
  <1>3. /\ DOMAIN r = DOMAIN Idle /\ DOMAIN r.seen = Files /\ DOMAIN r.next = Files
        /\ r.at = "write" /\ r.todo = <<"keys">> /\ r.seen.config = req[h].seen.config
    BY <1>2 DEF Formed, Idle, Files
  <1>4. UNCHANGED file /\ history \subseteq history' /\ ~ At(h, "fill") /\ req[h].todo = << >>
    BY NothingToDo DEF ReadKeys, Untouched, At
  <1>5. Becomes(h, r)
    BY <1>1
  <1> HIDE DEF r
  <1>6. r.todo # << >> /\ ~ Due(r, "config") /\ ~ Due(r, "ops")
    BY <1>3, OneDue
  <1>7. Formed(r, history')
    BY <1>2, <1>3, <1>6 DEF Formed, Todos
  <1> QED BY <1>3, <1>4, <1>5, <1>7 DEF Quiet

\* What an edit makes of a pair.
EditOk(e, c, o, n, m, t) ==
    /\ Whole(n)
    /\ \A g \in n.granted : \/ g \in c.granted \/ g[2] \in o \/ g[2] \in m
                            \/ e.kind = "grants" /\ e.roles # {} /\ e.id \notin o
    /\ \A x \in Party : \/ TokenIn(n, x) = TokenIn(c, x)
                        \/ x = PartyOf(e) /\ TokenIn(n, x) = t /\ TakesToken(e)
    /\ \A q \in o \ m : \A g \in n.granted : g[2] # q
    /\ e.kind # "use"

LEMMA TokensKept ==
    ASSUME NEW c, NEW n, n.agents = c.agents, n.admin = c.admin
    PROVE  \A x : TokenIn(n, x) = TokenIn(c, x)
  BY DEF TokenIn

LEMMA GrantsEdited ==
    ASSUME NEW e, e.kind \in {"add", "grants", "remove"}, NEW c, Whole(c), NEW o, NEW t,
           NEW n, n = EditedConfig(e, c, t), n # Nil, NEW m, m = EditedOps(e, o)
    PROVE  EditOk(e, c, o, n, m, t)
  <1> DEFINE left == IF e.kind = "add" THEN c.granted ELSE {g \in c.granted : g[2] # e.id}
             new == IF e.kind = "remove" THEN {} ELSE e.roles
  <1>1. /\ n = [c EXCEPT !.granted = left \cup (new \X {e.id})]
        /\ m = IF e.kind = "add" THEN o \cup {e.id} ELSE IF e.kind = "remove" THEN o \ {e.id} ELSE o
    BY DEF EditedConfig, EditedOps, addOperation, addGrants, setGrants, Grants
  <1>2. DOMAIN c = {"agents", "admin", "granted", "sites", "off"} /\ DOMAIN c.agents = Agent
    BY DEF Whole
  <1>3. /\ n.granted = left \cup (new \X {e.id}) /\ n.agents = c.agents /\ n.admin = c.admin
        /\ DOMAIN n = DOMAIN c
    <2> HIDE DEF left, new
    <2> QED BY <1>1, <1>2
  <1>4. Whole(n)
    BY <1>2, <1>3 DEF Whole
  <1>5. \A x \in Party : TokenIn(n, x) = TokenIn(c, x)
    BY <1>3, TokensKept
  <1>6. \A g \in n.granted : g \in left \/ (g[2] = e.id /\ new # {})
    <2> HIDE DEF left, new
    <2> QED BY <1>3
  <1>7. \A g \in n.granted : \/ g \in c.granted \/ g[2] \in o \/ g[2] \in m
                             \/ e.kind = "grants" /\ e.roles # {} /\ e.id \notin o
    BY <1>1, <1>6
  <1>8. \A q \in o \ m : \A g \in n.granted : g[2] # q
    BY <1>1, <1>6
  <1> QED BY <1>4, <1>5, <1>7, <1>8 DEF EditOk

LEMMA ServiceEdited ==
    ASSUME NEW e, e.kind = "service", NEW c, Whole(c), NEW o, NEW t,
           NEW n, n = EditedConfig(e, c, t), n # Nil, NEW m, m = EditedOps(e, o)
    PROVE  EditOk(e, c, o, n, m, t)
  <1>1. /\ n = [c EXCEPT !.sites = @ \cup {e.site}, !.granted = @ \cup (e.roles \X e.ids)]
        /\ m = o \cup e.ids
    BY DEF EditedConfig, EditedOps, addOperation
  <1>2. DOMAIN c = {"agents", "admin", "granted", "sites", "off"} /\ DOMAIN c.agents = Agent
    BY DEF Whole
  <1>3. /\ n.granted = c.granted \cup (e.roles \X e.ids) /\ n.agents = c.agents /\ n.admin = c.admin
        /\ DOMAIN n = DOMAIN c
    BY <1>1, <1>2
  <1>4. Whole(n)
    BY <1>2, <1>3 DEF Whole
  <1>5. \A x \in Party : TokenIn(n, x) = TokenIn(c, x)
    BY <1>3, TokensKept
  <1>6. \A g \in n.granted : g \in c.granted \/ g[2] \in m
    BY <1>1, <1>3
  <1>7. o \ m = {}
    BY <1>1
  <1> QED BY <1>4, <1>5, <1>6, <1>7 DEF EditOk

\* The other edits grant nothing and leave the operations alone.
LEMMA OtherEdited ==
    ASSUME NEW e, e.kind \in {"disable", "enable", "regenerate", "agent", "admin"}, NEW c, Whole(c),
           NEW o, NEW t, NEW n, n = EditedConfig(e, c, t), n # Nil, NEW m, m = EditedOps(e, o)
    PROVE  EditOk(e, c, o, n, m, t)
  <1>1. m = o
    BY DEF EditedOps
  <1>2. DOMAIN c = {"agents", "admin", "granted", "sites", "off"} /\ DOMAIN c.agents = Agent
    BY DEF Whole
  <1>3. ASSUME DOMAIN n = DOMAIN c, n.granted = c.granted, DOMAIN n.agents = Agent,
               \A x \in Party : \/ TokenIn(n, x) = TokenIn(c, x)
                                \/ x = PartyOf(e) /\ TokenIn(n, x) = t /\ TakesToken(e)
        PROVE  EditOk(e, c, o, n, m, t)
    BY <1>1, <1>2, <1>3 DEF EditOk, Whole
  <1>4. CASE e.kind \in {"disable", "enable"}
    <2>1. PICK off : n = [c EXCEPT !.off = off]
      BY <1>4 DEF EditedConfig
    <2>2. n.granted = c.granted /\ n.agents = c.agents /\ n.admin = c.admin /\ DOMAIN n = DOMAIN c
      BY <1>2, <2>1
    <2>3. \A x \in Party : TokenIn(n, x) = TokenIn(c, x)
      BY <2>2, TokensKept
    <2> QED BY <1>2, <1>3, <2>2, <2>3
  <1>5. CASE e.kind \in {"regenerate", "agent"}
    <2>1. n = [c EXCEPT !.agents[e.agent] = t]
      BY <1>5 DEF EditedConfig
    <2>2. /\ n.granted = c.granted /\ n.agents = [c.agents EXCEPT ![e.agent] = t]
          /\ n.admin = c.admin /\ DOMAIN n = DOMAIN c
      BY <1>2, <2>1
    <2>3. \A x \in Party : TokenIn(n, x) = TokenIn(c, x) \/ (x = e.agent /\ TokenIn(n, x) = t)
      BY <1>2, <2>2 DEF TokenIn, Party
    <2>4. PartyOf(e) = e.agent /\ TakesToken(e)
      BY <1>5 DEF PartyOf, TakesToken
    <2>5. DOMAIN n.agents = Agent
      BY <1>2, <2>2
    <2> QED BY <1>3, <2>2, <2>3, <2>4, <2>5
  <1>6. CASE e.kind = "admin"
    <2>1. n = [c EXCEPT !.admin = t]
      BY <1>6 DEF EditedConfig
    <2>2. n.granted = c.granted /\ n.agents = c.agents /\ n.admin = t /\ DOMAIN n = DOMAIN c
      BY <1>2, <2>1
    <2>3. \A x \in Party : TokenIn(n, x) = TokenIn(c, x) \/ (x = AdminLabel /\ TokenIn(n, x) = t)
      BY <2>2 DEF TokenIn
    <2>4. PartyOf(e) = AdminLabel /\ TakesToken(e)
      BY <1>6 DEF PartyOf, TakesToken
    <2> QED BY <1>2, <1>3, <2>2, <2>3, <2>4
  <1> QED BY <1>4, <1>5, <1>6

LEMMA EditFits ==
    ASSUME NEW e, NEW c, Whole(c), NEW o, NEW p, NEW t, Permitted(e, c, o, p), EditedConfig(e, c, t) # Nil
    PROVE  EditOk(e, c, o, EditedConfig(e, c, t), EditedOps(e, o), t)
  <1> DEFINE n == EditedConfig(e, c, t)
             m == EditedOps(e, o)
  <1>1. n = EditedConfig(e, c, t) /\ m = EditedOps(e, o)
    OBVIOUS
  <1>2. e.kind \in {"add", "grants", "remove", "service", "disable", "enable", "regenerate", "agent", "admin"}
    BY DEF Permitted
  <1> HIDE DEF n, m
  <1>3. EditOk(e, c, o, n, m, t)
    BY <1>1, <1>2, GrantsEdited, ServiceEdited, OtherEdited
  <1> QED BY <1>3 DEF n, m

\* The handler once it has made its edit.
Edited(old) ==
    LET c == old.seen.config
        r == [old EXCEPT
               !.at = "write",
               !.next = [config |-> EditedConfig(old.edit, c, NextToken),
                         ops |-> EditedOps(old.edit, old.seen.ops), keys |-> << >>],
               !.tok = IF TakesToken(old.edit) THEN NextToken ELSE Nil,
               !.old = IF old.edit.kind = "regenerate" THEN TokenOf(old.edit, c) ELSE Nil]
    IN  [r EXCEPT !.todo = Changed(r)]

LEMMA EditedIs ==
    ASSUME NEW old, DOMAIN old = DOMAIN Idle, NEW r, r = Edited(old)
    PROVE  /\ DOMAIN r = DOMAIN Idle /\ DOMAIN r.next = Files
           /\ r.at = "write" /\ r.edit = old.edit /\ r.seen = old.seen
           /\ r.next.config = EditedConfig(old.edit, old.seen.config, NextToken)
           /\ r.next.ops = EditedOps(old.edit, old.seen.ops) /\ r.next.keys = << >>
           /\ r.tok = IF TakesToken(old.edit) THEN NextToken ELSE Nil
           /\ r.old = IF old.edit.kind = "regenerate" THEN TokenOf(old.edit, old.seen.config) ELSE Nil
           /\ r.todo = IF r.next.config # r.seen.config
                       THEN IF r.next.ops # r.seen.ops THEN <<"config", "ops">> ELSE <<"config">>
                       ELSE IF r.next.ops # r.seen.ops THEN <<"ops">> ELSE << >>
  <1> DEFINE n == [config |-> EditedConfig(old.edit, old.seen.config, NextToken),
                   ops |-> EditedOps(old.edit, old.seen.ops), keys |-> << >>]
             t == IF TakesToken(old.edit) THEN NextToken ELSE Nil
             u == IF old.edit.kind = "regenerate" THEN TokenOf(old.edit, old.seen.config) ELSE Nil
             q == [old EXCEPT !.at = "write", !.next = n, !.tok = t, !.old = u]
             todo == Changed(q)
  <1>1. r = [q EXCEPT !.todo = todo]
    BY DEF Edited
  <1>2. /\ DOMAIN n = Files /\ n.config = EditedConfig(old.edit, old.seen.config, NextToken)
        /\ n.ops = EditedOps(old.edit, old.seen.ops) /\ n.keys = << >>
    BY DEF Files
  <1>3. todo = IF q.next.config # q.seen.config
               THEN IF q.next.ops # q.seen.ops THEN <<"config", "ops">> ELSE <<"config">>
               ELSE IF q.next.ops # q.seen.ops THEN <<"ops">> ELSE << >>
    BY ChangedForms
  <1>4. /\ DOMAIN q = DOMAIN Idle /\ q.at = "write" /\ q.edit = old.edit /\ q.seen = old.seen
        /\ q.next = n /\ q.tok = t /\ q.old = u
    <2> HIDE DEF n, t, u
    <2> QED BY DEF Idle
  <1>5. /\ DOMAIN r = DOMAIN Idle /\ r.at = "write" /\ r.edit = old.edit /\ r.seen = old.seen
        /\ r.next = n /\ r.tok = t /\ r.old = u /\ r.todo = todo
    <2> HIDE DEF todo, q
    <2> QED BY <1>1, <1>4 DEF Idle
  <1> HIDE DEF n, q, todo
  <1> QED BY <1>2, <1>3, <1>4, <1>5

LEMMA MakeEditQuiet ==
    ASSUME InTurn, NEW h \in Handler, MakeEdit(h)
    PROVE  Quiet(h, Edited(req[h]))
  <1> DEFINE old == req[h]
             e == old.edit
             c == old.seen.config
             r == Edited(old)
  <1>1. /\ Becomes(h, r) /\ UNCHANGED file /\ history \subseteq history' /\ At(h, "edit")
        /\ ("undefined" \in history' \/ ~ (e.kind = "grants" /\ e.roles # {} /\ e.id \notin old.seen.ops))
    BY DEF MakeEdit, Edited
  <1>2. Formed(old, history)
    BY DEF InTurn
  <1>3. /\ r.at = "write" /\ r.edit = e /\ r.seen = old.seen /\ DOMAIN r = DOMAIN Idle
        /\ DOMAIN r.next = Files /\ r.next.keys = << >>
        /\ r.next.config = EditedConfig(e, c, NextToken) /\ r.next.ops = EditedOps(e, old.seen.ops)
        /\ r.tok = IF TakesToken(e) THEN NextToken ELSE Nil
        /\ r.todo = IF r.next.config # r.seen.config
                    THEN IF r.next.ops # r.seen.ops THEN <<"config", "ops">> ELSE <<"config">>
                    ELSE IF r.next.ops # r.seen.ops THEN <<"ops">> ELSE << >>
    BY <1>2, EditedIs DEF Formed
  <1>4. old.todo = << >> /\ ~ At(h, "fill")
    BY <1>1, NothingToDo DEF At
  <1>5. /\ c # Nil /\ Permitted(e, c, old.seen.ops, file.config) /\ r.next.config # Nil
    BY <1>3 DEF MakeEdit, Commits, Loads
  <1>6. Whole(c) /\ ~ Recorded(old)
    BY <1>1, <1>2, <1>5 DEF Formed, At
  <1>7. EditOk(e, c, old.seen.ops, r.next.config, r.next.ops, NextToken)
    BY <1>3, <1>5, <1>6, EditFits
  <1>8. ~ Recorded(r)
    BY <1>3, <1>6 DEF Recorded
  <1>9. r.todo \in Todos
    BY <1>3 DEF Todos
  <1>10. /\ Due(r, "config") <=> r.next.config # r.seen.config
         /\ Due(r, "ops") <=> r.next.ops # r.seen.ops
    <2> HIDE DEF r
    <2>1. CASE r.next.config = r.seen.config /\ r.next.ops = r.seen.ops
      <3>1. r.todo = << >>
        BY <1>3, <2>1
      <3> QED BY <2>1, <3>1, NothingDue
    <2>2. CASE r.next.config # r.seen.config /\ r.next.ops = r.seen.ops
      <3>1. r.todo = <<"config">>
        BY <1>3, <2>2
      <3>2. \A f : Due(r, f) <=> f = "config"
        BY <3>1, OneDue, Zenon
      <3> QED BY <2>2, <3>2
    <2>3. CASE r.next.config = r.seen.config /\ r.next.ops # r.seen.ops
      <3>1. r.todo = <<"ops">>
        BY <1>3, <2>3
      <3>2. \A f : Due(r, f) <=> f = "ops"
        BY <3>1, OneDue, Zenon
      <3> QED BY <2>3, <3>2
    <2>4. CASE r.next.config # r.seen.config /\ r.next.ops # r.seen.ops
      <3>1. r.todo = <<"config", "ops">>
        BY <1>3, <2>4
      <3> QED BY <2>4, <3>1, TwoDue
    <2> QED BY <2>1, <2>2, <2>3, <2>4
  <1> HIDE DEF r
  <1>11. Fits(r, history')
    <2>1. \A g \in r.next.config.granted :
            \/ g \in c.granted \/ g[2] \in old.seen.ops
            \/ Due(r, "ops") /\ g[2] \in r.next.ops
            \/ "undefined" \in history'
      BY <1>1, <1>3, <1>7, <1>10 DEF EditOk
    <2>2. \A x \in Party : \/ TokenIn(r.next.config, x) = TokenIn(c, x)
                           \/ TakesToken(r.edit) /\ x = PartyOf(r.edit) /\ TokenIn(r.next.config, x) = r.tok
      BY <1>3, <1>7 DEF EditOk
    <2> QED BY <1>3, <1>5, <1>7, <1>8, <1>10, <2>1, <2>2 DEF Fits, EditOk
  <1>12. Formed(r, history')
    BY <1>2, <1>3, <1>9, <1>11 DEF Formed, Files
  <1>13. Quiet(h, r)
    BY <1>1, <1>3, <1>4, <1>12 DEF Quiet
  <1> QED BY <1>13 DEF r

-----------------------------------------------------------------------------

\* What a write does to the handlers: it moves one of them.
LEMMA WriterMoves ==
    ASSUME InTurn, NEW h \in Handler, Truncate(h) \/ Fill(h)
    PROVE  /\ req[h].todo # << >> /\ Head(req[h].todo) \in Files
           /\ Formed(req[h], history) /\ DOMAIN req[h] = DOMAIN Idle
           /\ DOMAIN req' = Handler /\ \A k \in Handler \ {h} : req'[k] = req[k]
           /\ history \subseteq history' /\ DOMAIN file' = Files
           /\ \A f \in Files \ {Head(req[h].todo)} : file'[f] = file[f]
  <1>1. Formed(req[h], history) /\ req[h].todo # << >>
    BY DEF InTurn, Formed, Truncate, Fill, At
  <1>2. Head(req[h].todo) \in Files
    BY <1>1, DueForms DEF Formed, Files
  <1>3. DOMAIN req' = Handler /\ \A k \in Handler \ {h} : req'[k] = req[k]
    BY DEF InTurn, Truncate, Fill, Becomes, Goes
  <1>4. history \subseteq history' /\ DOMAIN file' = Files
        /\ \A f \in Files \ {Head(req[h].todo)} : file'[f] = file[f]
    BY DEF InTurn, Truncate, Fill
  <1> QED BY <1>1, <1>2, <1>3, <1>4 DEF Formed

LEMMA FitsSame ==
    ASSUME NEW r, NEW q, NEW marks, Fits(r, marks), q.todo = r.todo, q.seen = r.seen,
           q.next = r.next, q.edit = r.edit, q.tok = r.tok
    PROVE  Fits(q, marks)
  <1>1. \A f : Due(q, f) <=> Due(r, f)
    BY DEF Due
  <1>2. ~ Recorded(q)
    BY DEF Fits, Recorded
  <1> QED BY <1>1, <1>2 DEF Fits

\* A handler empties a file that nobody else fills, and has read what it replaces.
LEMMA TruncateForms ==
    ASSUME InTurn, NEW h \in Handler, Truncate(h), "stale source" \notin history'
    PROVE  /\ At(h, "write") /\ DOMAIN req'[h] = DOMAIN Idle
           /\ req'[h].at = "fill" /\ req'[h].todo = req[h].todo /\ req'[h].seen = req[h].seen
           /\ req'[h].next = req[h].next /\ req'[h].edit = req[h].edit /\ req'[h].tok = req[h].tok
           /\ req'[h].old = req[h].old /\ req'[h].label = req[h].label
           /\ file'[Head(req[h].todo)] = Empty[Head(req[h].todo)]
           /\ \A k \in Handler : \A f : Filling(k, f)' <=> Filling(k, f) \/ (k = h /\ f = Head(req[h].todo))
           /\ Head(req[h].todo) \in Copied =>
                 ~ Torn(Head(req[h].todo)) /\ file.config = req[h].seen.config /\ file.ops = req[h].seen.ops
  <1>1. At(h, "write") /\ req'[h] = [req[h] EXCEPT !.at = "fill"]
    BY DEF InTurn, Truncate, Goes, Becomes
  <1>2. /\ DOMAIN req'[h] = DOMAIN Idle /\ req'[h].at = "fill" /\ req'[h].todo = req[h].todo
        /\ req'[h].seen = req[h].seen
        /\ req'[h].next = req[h].next /\ req'[h].edit = req[h].edit /\ req'[h].tok = req[h].tok
        /\ req'[h].old = req[h].old /\ req'[h].label = req[h].label
    BY <1>1, WriterMoves DEF Idle
  <1>3. file'[Head(req[h].todo)] = Empty[Head(req[h].todo)]
    BY WriterMoves DEF Truncate, InTurn
  <1>4. ASSUME NEW k \in Handler, NEW f
        PROVE  Filling(k, f)' <=> Filling(k, f) \/ (k = h /\ f = Head(req[h].todo))
    <2>1. CASE k = h
      BY <1>1, <1>2, <2>1 DEF Filling, At
    <2>2. CASE k # h
      <3>1. req'[k] = req[k]
        BY <2>2, WriterMoves
      <3> QED BY <2>2, <3>1 DEF Filling, At
    <2> QED BY <2>1, <2>2
  <1>5. Head(req[h].todo) \in Copied =>
           ~ Torn(Head(req[h].todo)) /\ file.config = req[h].seen.config /\ file.ops = req[h].seen.ops
    BY DEF Truncate, Copied
  <1> QED BY <1>1, <1>2, <1>3, <1>4, <1>5

LEMMA TruncateInTurn ==
    ASSUME InTurn, NEW h \in Handler, Truncate(h), "stale source" \notin history'
    PROVE  InTurn'
  <1> DEFINE f == Head(req[h].todo)
  <1>1. Formed(req'[h], history')
    <2>1. Formed(req[h], history')
      BY WriterMoves, FormedGrows
    <2>2. \A g : Due(req'[h], g) <=> Due(req[h], g)
      BY TruncateForms DEF Due
    <2>3. Fits(req[h], history') => Fits(req'[h], history')
      BY TruncateForms, FitsSame
    <2> QED BY <2>1, <2>2, <2>3, TruncateForms, WriterMoves DEF Formed
  <1>2. \A k \in Handler : Formed(req'[k], history')
    BY <1>1, WriterMoves, FormedGrows DEF InTurn
  <1>3. ASSUME NEW g \in Copied PROVE OneWriter(g)'
    <2>1. CASE g = f
      <3>1. \A k \in Handler : Filling(k, g)' <=> k = h
        <4>1. ~ Torn(g)
          BY <2>1, TruncateForms
        <4>2. \A k \in Handler : ~ Filling(k, g)
          BY <4>1 DEF Torn
        <4>3. \A k \in Handler : Filling(k, g)' <=> Filling(k, g) \/ (k = h /\ g = f)
          BY TruncateForms, Zenon
        <4> QED BY <2>1, <4>2, <4>3
      <3>2. file'[g] = Empty[g]
        BY <2>1, TruncateForms
      <3> QED BY <3>1, <3>2 DEF OneWriter, Torn
    <2>2. CASE g # f
      <3>1. \A k \in Handler : Filling(k, g)' <=> Filling(k, g)
        BY <2>2, TruncateForms
      <3>2. file'[g] = file[g]
        BY <2>2, WriterMoves DEF Copied, Files
      <3>3. OneWriter(g)
        BY DEF InTurn, Copied
      <3> QED BY <3>1, <3>2, <3>3 DEF OneWriter, Torn
    <2> QED BY <2>1, <2>2
  <1>4. file'.config = Nil \/ Whole(file'.config)
    <2>1. CASE f = "config"
      <3>1. file'[f] = Empty[f] /\ Empty["config"] = Nil
        BY TruncateForms DEF Empty
      <3> HIDE DEF f
      <3> QED BY <2>1, <3>1
    <2>2. CASE f # "config"
      BY <2>2, WriterMoves DEF InTurn, Files
    <2> QED BY <2>1, <2>2
  <1> QED BY <1>2, <1>3, <1>4, WriterMoves DEF InTurn, Copied
\* A handler fills a file and is done with it.
LEMMA FillForms ==
    ASSUME InTurn, NEW h \in Handler, Fill(h), NEW f, f = Head(req[h].todo)
    PROVE  /\ Filling(h, f) /\ history' = history
           /\ DOMAIN req'[h] = DOMAIN Idle /\ DOMAIN req'[h].seen = Files
           /\ req'[h].at = "write" /\ req'[h].todo = Tail(req[h].todo) /\ req'[h].next = req[h].next
           /\ req'[h].edit = req[h].edit /\ req'[h].tok = req[h].tok
           /\ req'[h].old = req[h].old /\ req'[h].label = req[h].label
           /\ req'[h].seen[f] = req[h].next[f]
           /\ \A g \in Files \ {f} : req'[h].seen[g] = req[h].seen[g]
           /\ file'[f] = req[h].next[f]
           /\ \A k \in Handler : \A g : Filling(k, g)' <=> Filling(k, g) /\ k # h
  <1>1. /\ At(h, "fill") /\ history' = history /\ file' = [file EXCEPT ![f] = req[h].next[f]]
        /\ req'[h] = [req[h] EXCEPT !.at = "write", !.todo = Tail(@), !.seen[f] = req[h].next[f]]
    BY DEF InTurn, Fill, Becomes
  <1>2. f \in Files /\ DOMAIN req[h] = DOMAIN Idle /\ DOMAIN req[h].seen = Files
    BY WriterMoves DEF Formed
  <1>3. /\ DOMAIN req'[h] = DOMAIN Idle
        /\ req'[h].at = "write" /\ req'[h].todo = Tail(req[h].todo) /\ req'[h].next = req[h].next
        /\ req'[h].edit = req[h].edit /\ req'[h].tok = req[h].tok
        /\ req'[h].old = req[h].old /\ req'[h].label = req[h].label
        /\ req'[h].seen = [req[h].seen EXCEPT ![f] = req[h].next[f]]
    BY <1>1, <1>2 DEF Idle
  <1>4. /\ DOMAIN req'[h].seen = Files /\ req'[h].seen[f] = req[h].next[f]
        /\ \A g \in Files \ {f} : req'[h].seen[g] = req[h].seen[g]
    BY <1>2, <1>3
  <1>5. file'[f] = req[h].next[f]
    BY <1>1, <1>2 DEF InTurn
  <1>6. ASSUME NEW k \in Handler, NEW g PROVE Filling(k, g)' <=> Filling(k, g) /\ k # h
    <2>1. CASE k = h
      BY <1>3, <2>1 DEF Filling, At
    <2>2. CASE k # h
      <3>1. req'[k] = req[k]
        BY <2>2, WriterMoves
      <3> QED BY <2>2, <3>1 DEF Filling, At
    <2> QED BY <2>1, <2>2
  <1>7. Filling(h, f)
    BY <1>1 DEF Filling
  <1> QED BY <1>1, <1>3, <1>4, <1>5, <1>6, <1>7

\* What is left to do: after a config perhaps the operations, otherwise nothing.
LEMMA FillDue ==
    ASSUME InTurn, NEW h \in Handler, Fill(h)
    PROVE  /\ req'[h].todo \in Todos /\ Due(req[h], Head(req[h].todo))
           /\ \A f : Due(req[h], f)' <=> Due(req[h], f) /\ f # Head(req[h].todo)
           /\ ~ Due(req[h], "config")'
           /\ Due(req[h], "ops")' => Head(req[h].todo) = "config"
  <1>1. req[h].todo \in Todos /\ req'[h].todo = Tail(req[h].todo) /\ req[h].todo # << >>
    BY FillForms, WriterMoves DEF Formed
  <1>2. CASE /\ Tail(req[h].todo) = << >> /\ Due(req[h], Head(req[h].todo))
             /\ \A f : Due(req[h], f) <=> f = Head(req[h].todo)
    <2>1. \A f : ~ Due(req'[h], f)
      BY <1>1, <1>2, NothingDue
    <2> QED BY <1>1, <1>2, <2>1 DEF Todos, Due
  <1>3. CASE /\ Head(req[h].todo) = "config" /\ Tail(req[h].todo) = <<"ops">>
             /\ \A f : Due(req[h], f) <=> f \in {"config", "ops"}
    <2>1. \A f : Due(req'[h], f) <=> f = "ops"
      BY <1>1, <1>3, OneDue
    <2> QED BY <1>1, <1>3, <2>1 DEF Todos, Due
  <1> QED BY <1>1, <1>2, <1>3, DueForms

LEMMA FillInTurn ==
    ASSUME InTurn, NEW h \in Handler, Fill(h)
    PROVE  InTurn'
  <1> DEFINE f == Head(req[h].todo)
             old == req[h]
             r == req'[h]
  <1>1. f \in Files /\ Formed(old, history) /\ history' = history
    BY WriterMoves, FillForms
  <1>2. /\ Due(old, f) /\ ~ Due(r, "config") /\ (Due(r, "ops") => f = "config" /\ Due(old, "ops"))
        /\ r.todo \in Todos
    BY FillDue DEF Due
  <1>3. /\ DOMAIN r = DOMAIN Idle /\ DOMAIN r.seen = Files /\ r.at = "write" /\ r.next = old.next
        /\ r.edit = old.edit /\ r.seen[f] = old.next[f]
        /\ \A g \in Files \ {f} : r.seen[g] = old.seen[g]
    BY FillForms
  <1> HIDE DEF f, r
  <1>4. f = "config" => Fits(old, history) /\ Whole(old.next.config)
    BY <1>1, <1>2 DEF Formed, Fits
  <1>5. r.seen.config = Nil \/ Whole(r.seen.config)
    BY <1>1, <1>3, <1>4 DEF Formed, Files
  <1>6. Due(r, "ops") => Fits(r, history)
    <2> SUFFICES ASSUME Due(r, "ops") PROVE Fits(r, history)
      OBVIOUS
    <2>1. f = "config" /\ Fits(old, history) /\ Due(old, "ops")
      BY <1>2, <1>4
    <2>2. r.seen.config = old.next.config /\ r.seen.ops = old.seen.ops /\ r.seen.keys = old.seen.keys
      BY <1>3, <2>1 DEF Files
    <2>3. r.seen.config # Nil /\ ~ Recorded(r)
      BY <1>3, <2>1, <2>2 DEF Fits, Recorded, Whole
    <2> QED BY <1>2, <1>3, <2>1, <2>2, <2>3 DEF Fits
  <1>7. Formed(r, history')
    BY <1>1, <1>2, <1>3, <1>5, <1>6 DEF Formed
  <1>8. \A k \in Handler : Formed(req'[k], history')
    BY <1>1, <1>7, WriterMoves DEF InTurn, r
  <1>9. ASSUME NEW g \in Copied PROVE OneWriter(g)'
    <2>1. OneWriter(g)
      BY DEF InTurn, Copied
    <2>2. \A k \in Handler : Filling(k, g)' => Filling(k, g) /\ k # h
      BY FillForms
    <2>3. CASE g = f
      <3>1. \A k \in Handler : ~ Filling(k, g)'
        BY <2>1, <2>2, <2>3, FillForms DEF OneWriter, f
      <3> QED BY <3>1 DEF OneWriter, Torn
    <2>4. CASE g # f
      <3>1. file'[g] = file[g]
        BY <2>4, WriterMoves DEF Copied, Files, f
      <3> QED BY <2>1, <2>2, <3>1 DEF OneWriter, Torn
    <2> QED BY <2>3, <2>4
  <1>10. file'.config = Nil \/ Whole(file'.config)
    <2>1. CASE f = "config"
      <3>1. file'[f] = old.next[f]
        BY FillForms DEF f
      <3> QED BY <1>4, <2>1, <3>1
    <2>2. CASE f # "config"
      BY <2>2, WriterMoves DEF InTurn, Files, f
    <2> QED BY <2>1, <2>2
  <1> QED BY <1>8, <1>9, <1>10, WriterMoves DEF InTurn, Copied

-----------------------------------------------------------------------------
(* The steps, by what they do to the source files.                         *)

LEMMA StepForms ==
    ASSUME InTurn, Next, ~ Excused({"failed", "exit"})'
    PROVE  \/ \E h \in Handler : \E r : Quiet(h, r)
           \/ \E h \in Handler : Truncate(h) \/ Fill(h)
           \/ UNCHANGED <<file, req, history>>
           \/ /\ \A h \in Handler : At(h, "idle")
              /\ req' = [h \in Handler |-> Idle] /\ UNCHANGED <<file, history>>
  <1>1. ASSUME NEW h \in Handler, EditStep(h) PROVE (\E r : Quiet(h, r)) \/ Truncate(h) \/ Fill(h)
    <2>1. ~ WriteFails(h)
      BY DEF WriteFails, Excused
    <2> QED BY <1>1, <2>1, MakeEditQuiet, EditQuiet, ReadKeysQuiet DEF EditStep
  <1>2. ASSUME NEW h \in Handler, OpenConfig(h) \/ ReceiveOrder(h) \/ UseAdminToken(h)
        PROVE  \E r : Quiet(h, r)
    BY <1>2, ReceiveQuiet
  <1>3. ASSUME NEW h \in Handler, PublishStep(h) PROVE \E r : Quiet(h, r)
    BY <1>3, PublishQuiet
  <1>4. ASSUME NEW i, HelperStep(i) PROVE UNCHANGED <<file, req, history>>
    BY <1>4 DEF HelperStep, ReadSource, TruncateInstalled, FillInstalled, FilesCopied,
                ControlService, HelperFails, HelperAt, editVars
  <1>5. CASE Exit
    <2>1. \A h \in Handler : At(h, "idle")
      BY <1>5 DEF Exit, Excused
    <2>2. ~ \E h \in Handler : At(h, "wait")
      BY <2>1 DEF At
    <2> QED BY <1>5, <2>1, <2>2 DEF Exit
  <1> QED BY <1>1, <1>2, <1>3, <1>4, <1>5 DEF Next

\* Nobody is writing: every handler is idle.
LEMMA AllIdle ==
    ASSUME InTurn, \A h \in Handler : At(h, "idle"), req' = [h \in Handler |-> Idle], UNCHANGED file
    PROVE  /\ \A h \in Handler : req[h].todo = << >> /\ req'[h] = Idle
           /\ \A h \in Handler : \A f : ~ Filling(h, f) /\ ~ Filling(h, f)'
           /\ Sources' = Sources
  <1>1. \A h \in Handler : req[h].todo = << >> /\ req'[h] = Idle
    BY NothingToDo DEF At
  <1>2. \A h \in Handler : \A f : ~ Filling(h, f) /\ ~ Filling(h, f)'
    BY <1>1 DEF Filling, At, Idle
  <1>3. {h \in Handler : Filling(h, "config")} = {} /\ {h \in Handler : Filling(h, "config")'} = {}
    BY <1>2
  <1>4. Sources = {file.config} \ {Nil} /\ Sources' = {file'.config} \ {Nil}
    BY <1>3 DEF Sources
  <1> QED BY <1>1, <1>2, <1>4

LEMMA InTurnStep ==
    ASSUME InTurn, Next, ~ Excused({"stale source", "failed", "exit"})'
    PROVE  InTurn'
  <1>1. ~ Excused({"failed", "exit"})' /\ "stale source" \notin history'
    BY DEF Excused
  <1>2. CASE \E h \in Handler : \E r : Quiet(h, r)
    BY <1>2, QuietInTurn DEF Quiet
  <1>3. CASE \E h \in Handler : Truncate(h) \/ Fill(h)
    BY <1>1, <1>3, TruncateInTurn, FillInTurn
  <1>4. CASE UNCHANGED <<file, req, history>>
    BY <1>4 DEF InTurn, OneWriter, Filling, Torn, At
  <1>5. CASE /\ \A h \in Handler : At(h, "idle")
             /\ req' = [h \in Handler |-> Idle] /\ UNCHANGED <<file, history>>
    <2>1. \A h \in Handler : \A f : ~ Filling(h, f)'
      BY <1>5, AllIdle
    <2>2. OneWriter("config")' /\ OneWriter("ops")'
      BY <2>1 DEF OneWriter, Torn
    <2>3. \A h \in Handler : Formed(req'[h], history')
      BY <1>5, IdleFormed
    <2> QED BY <1>5, <2>2, <2>3 DEF InTurn
  <1> QED BY <1>1, <1>2, <1>3, <1>4, <1>5, StepForms

-----------------------------------------------------------------------------
(* What is granted and not there is owed.                                  *)

Owes(r, o) == Due(r, "ops") /\ o \in r.next.ops

LEMMA SourcesAre ==
    \A c : c \in Sources <=>
             c # Nil /\ (c = file.config \/ \E h \in Handler : Filling(h, "config") /\ c = req[h].next.config)
  BY DEF Sources

LEMMA TruncateOwed ==
    ASSUME InTurn, GrantsOwed, NEW h \in Handler, Truncate(h),
           ~ Excused({"stale source", "undefined"})'
    PROVE  GrantsOwed'
  <1> DEFINE f == Head(req[h].todo)
             old == req[h]
  <1>0. "stale source" \notin history' /\ "undefined" \notin history' /\ history \subseteq history'
    BY WriterMoves DEF Excused
  <1>1. f \in Files /\ Due(old, f) /\ Formed(old, history) /\ "undefined" \notin history
    BY <1>0, WriterMoves, DueForms DEF Formed
  <1>6. req'[h].next = old.next /\ req'[h].todo = old.todo
    BY <1>0, TruncateForms
  <1>2. ASSUME NEW k \in Handler, NEW o, Owes(req[k], o) PROVE Owes(req'[k], o)
    <2>1. CASE k = h
      BY <1>0, <1>2, <1>6, <2>1 DEF Owes, Due
    <2>2. CASE k # h
      BY <1>2, <2>2, WriterMoves DEF Owes
    <2> QED BY <2>1, <2>2
  <1>3. CASE f = "keys"
    <2>1. \A k \in Handler : Filling(k, "config")' <=> Filling(k, "config")
      BY <1>0, <1>3, TruncateForms
    <2>2. \A k \in Handler : req'[k].next = req[k].next
      BY <1>0, WriterMoves, TruncateForms
    <2>3. file'.config = file.config /\ file'.ops = file.ops
      BY <1>3, WriterMoves DEF Files
    <2>4. \A c : c \in Sources' => c \in Sources
      BY <2>1, <2>2, <2>3 DEF Sources
    <2> QED BY <1>2, <2>3, <2>4 DEF GrantsOwed, Owes
  <1>4. CASE f = "config"
    <2>1. /\ ~ Torn("config") /\ file.config = old.seen.config /\ file.ops = old.seen.ops
          /\ file'[f] = Empty[f] /\ Empty["config"] = Nil
      BY <1>0, <1>4, TruncateForms DEF Copied, Empty
    <2>2. file'.config = Nil /\ file'.ops = file.ops
      BY <1>4, <2>1, WriterMoves DEF Files
    <2>3. \A k \in Handler : Filling(k, "config")' => k = h
      BY <1>0, <1>4, <2>1, TruncateForms DEF Torn
    <2>4. ASSUME NEW c \in Sources' PROVE c = old.next.config
      <3>1. PICK k \in Handler : Filling(k, "config")' /\ c = req'[k].next.config
        BY <2>2 DEF Sources
      <3> QED BY <1>6, <2>3, <3>1
    <2>5. Fits(old, history) /\ Due(old, "config") /\ old.seen.config \in Sources
      BY <1>1, <1>4, <2>1 DEF Formed, Fits, Sources
    <2>6. ASSUME NEW g \in old.next.config.granted
          PROVE  g[2] \in file.ops \/ \E k \in Handler : Owes(req[k], g[2])
      <3>1. g \in old.seen.config.granted \/ g[2] \in old.seen.ops \/ Owes(old, g[2])
        BY <1>1, <2>5 DEF Fits, Owes
      <3> QED BY <2>1, <2>5, <3>1 DEF GrantsOwed, Owes
    <2> QED BY <1>2, <2>2, <2>4, <2>6 DEF GrantsOwed, Owes
  <1>5. CASE f = "ops"
    <2>1. /\ file.config = old.seen.config /\ file.ops = old.seen.ops
      BY <1>0, <1>5, TruncateForms DEF Copied
    <2>2. Fits(old, history) /\ Due(old, "ops")
      BY <1>1, <1>5 DEF Formed
    <2>3. ~ Due(old, "config")
      <3>1. \A g : Due(old, g) <=> g = f
        BY <1>1, <1>5, DueForms DEF Formed
      <3> QED BY <1>5, <3>1
    <2>4. old.next.config = file.config /\ file.config # Nil
      BY <2>1, <2>2, <2>3 DEF Fits
    <2>5. file'.config = file.config
      BY <1>5, WriterMoves DEF Files
    <2>6. \A k \in Handler : ~ Filling(k, "config")'
      BY <1>0, <1>5, <2>4, TruncateForms DEF InTurn, OneWriter, Torn, Empty
    <2>7. ASSUME NEW c \in Sources' PROVE c = file.config
      BY <2>5, <2>6 DEF Sources
    <2>8. file.config \in Sources
      BY <2>4 DEF Sources
    <2>9. ASSUME NEW g \in file.config.granted PROVE \E k \in Handler : Owes(req[k], g[2])
      <3>1. CASE g[2] \in file.ops
        BY <2>1, <2>2, <2>4, <3>1 DEF Fits, Owes
      <3>2. CASE g[2] \notin file.ops
        BY <2>8, <3>2 DEF GrantsOwed, Owes
      <3> QED BY <3>1, <3>2
    <2> QED BY <1>2, <2>7, <2>9 DEF GrantsOwed, Owes
  <1> QED BY <1>1, <1>3, <1>4, <1>5 DEF Files

\* What is written was one of the source's texts before.
LEMMA FillSources ==
    ASSUME InTurn, NEW h \in Handler, Fill(h)
    PROVE  \A c : c \in Sources' => c \in Sources
  <1> DEFINE f == Head(req[h].todo)
             old == req[h]
  <1>1. f \in Files /\ Filling(h, f) /\ file'[f] = old.next[f]
    BY WriterMoves, FillForms
  <1>2. ASSUME NEW c \in Sources' PROVE c \in Sources
    <2>1. CASE c # file'.config
      <3>1. PICK k \in Handler : Filling(k, "config")' /\ c = req'[k].next.config /\ c # Nil
        BY <1>2, <2>1 DEF Sources
      <3>2. Filling(k, "config") /\ c = req[k].next.config
        BY <3>1, FillForms, WriterMoves
      <3> QED BY <3>1, <3>2, SourcesAre
    <2>2. CASE c = file'.config /\ f = "config"
      BY <1>1, <1>2, <2>2, SourcesAre DEF Sources
    <2>3. CASE c = file'.config /\ f # "config"
      <3>1. c = file.config /\ c # Nil
        BY <1>2, <2>3, WriterMoves DEF Sources, Files
      <3> QED BY <3>1, SourcesAre
    <2> QED BY <2>1, <2>2, <2>3
  <1> QED BY <1>2

LEMMA FillOwed ==
    ASSUME InTurn, GrantsOwed, NEW h \in Handler, Fill(h)
    PROVE  GrantsOwed'
  <1> DEFINE f == Head(req[h].todo)
             old == req[h]
  <1>1. f \in Files /\ Due(old, f) /\ Filling(h, f) /\ file'[f] = old.next[f]
    BY WriterMoves, FillForms, FillDue
  <1>2. ASSUME NEW k \in Handler, NEW o, Owes(req[k], o), f # "ops" \/ k # h PROVE Owes(req'[k], o)
    <2>1. CASE k = h
      <3>1. req'[h].next = old.next
        BY FillForms
      <3>2. Due(old, "ops") /\ f # "ops"
        BY <1>2, <2>1 DEF Owes
      <3>3. Due(req'[h], "ops")
        <4>1. \A g : Due(req[h], g)' <=> Due(req[h], g) /\ g # f
          BY FillDue
        <4>2. Due(req[h], "ops")'
          BY <3>2, <4>1
        <4> QED BY <4>2 DEF Due
      <3> QED BY <1>2, <2>1, <3>1, <3>3 DEF Owes
    <2>2. CASE k # h
      BY <1>2, <2>2, WriterMoves DEF Owes
    <2> QED BY <2>1, <2>2
  <1>3. ASSUME NEW c \in Sources' PROVE c \in Sources
    BY <1>3, FillSources
  <1>4. CASE f # "ops"
    <2>1. file'.ops = file.ops
      BY <1>4, WriterMoves DEF Files
    <2>2. ASSUME NEW c \in Sources', NEW g \in c.granted
          PROVE  g[2] \in file'.ops \/ \E k \in Handler : Owes(req'[k], g[2])
      BY <1>2, <1>3, <1>4, <2>1, <2>2 DEF GrantsOwed, Owes
    <2> QED BY <2>2 DEF GrantsOwed, Owes
  <1>5. CASE f = "ops"
    <2>1. file.ops = {}
      BY <1>1, <1>5 DEF InTurn, OneWriter, Torn, Empty
    <2>2. file'.ops = old.next.ops
      BY <1>1, <1>5
    <2>3. ASSUME NEW c \in Sources', NEW g \in c.granted
          PROVE  g[2] \in file'.ops \/ \E k \in Handler : Owes(req'[k], g[2])
      <3>1. PICK k \in Handler : Owes(req[k], g[2])
        BY <1>3, <2>1, <2>3 DEF GrantsOwed, Owes
      <3>2. CASE k = h
        BY <2>2, <3>1, <3>2 DEF Owes
      <3>3. CASE k # h
        BY <1>2, <3>1, <3>3
      <3> QED BY <3>2, <3>3
    <2> QED BY <2>3 DEF GrantsOwed, Owes
  <1> QED BY <1>4, <1>5

LEMMA GrantsStep == GrantsInv /\ [Next]_vars => GrantsInv'
  <1> SUFFICES ASSUME GrantsInv, [Next]_vars, ~ Excused({"stale source", "failed", "exit", "undefined"})'
               PROVE  (InTurn /\ GrantsOwed)'
    BY DEF GrantsInv
  <1>0. history \subseteq history'
    BY HistoryGrows DEF vars, editVars
  <1>1. InTurn /\ GrantsOwed
    BY <1>0 DEF GrantsInv, Excused
  <1>2. CASE UNCHANGED <<file, req, history>>
    <2>1. InTurn'
      BY <1>1, <1>2 DEF InTurn, OneWriter, Filling, Torn, At
    <2>2. Sources' = Sources
      BY <1>2 DEF Sources, Filling, At
    <2> QED BY <1>1, <1>2, <2>1, <2>2 DEF GrantsOwed
  <1>3. CASE Next
    <2>1. ~ Excused({"stale source", "failed", "exit"})' /\ ~ Excused({"failed", "exit"})'
          /\ ~ Excused({"stale source", "undefined"})'
      BY DEF Excused
    <2>2. InTurn'
      BY <1>1, <1>3, <2>1, InTurnStep
    <2>3. ASSUME NEW h \in Handler, NEW r, Quiet(h, r) PROVE GrantsOwed'
      <3>1. /\ req'[h] = r /\ \A k \in Handler \ {h} : req'[k] = req[k]
            /\ Sources' = Sources /\ file' = file /\ ~ Due(req[h], "ops")
        BY <1>1, <2>3, NothingFilled, NothingDue DEF Quiet
      <3> QED BY <1>1, <3>1 DEF GrantsOwed
    <2>4. ASSUME \A h \in Handler : At(h, "idle"),
                 req' = [h \in Handler |-> Idle], UNCHANGED <<file, history>>
          PROVE  GrantsOwed'
      <3>1. (\A h \in Handler : ~ Due(req[h], "ops")) /\ Sources' = Sources
        BY <1>1, <2>4, AllIdle, NothingDue
      <3>2. \A c \in Sources : \A g \in c.granted : g[2] \in file.ops
        BY <1>1, <3>1 DEF GrantsOwed
      <3> QED BY <2>4, <3>1, <3>2 DEF GrantsOwed
    <2>5. GrantsOwed'
      BY <1>1, <1>2, <1>3, <2>1, <2>3, <2>4, StepForms, TruncateOwed, FillOwed
    <2> QED BY <2>2, <2>5
  <1> QED BY <1>2, <1>3 DEF vars, editVars

LEMMA InitInTurn == Init => InTurn /\ \A h \in Handler : \A f : ~ Filling(h, f)
  <1> SUFFICES ASSUME Init PROVE InTurn /\ \A h \in Handler : \A f : ~ Filling(h, f)
    OBVIOUS
  <1>1. /\ file = [config |-> FirstConfig, ops |-> FirstOps, keys |-> FirstKeys]
        /\ req = [h \in Handler |-> Idle]
    BY DEF Init, EditInit
  <1>2. \A h \in Handler : \A f : ~ Filling(h, f)
    BY <1>1 DEF Filling, At, Idle
  <1>3. OneWriter("config") /\ OneWriter("ops")
    BY <1>2 DEF OneWriter, Torn
  <1>4. \A h \in Handler : Formed(req[h], history)
    BY <1>1, IdleFormed
  <1>5. DOMAIN file = Files /\ Whole(file.config)
    BY <1>1, EditAssumption DEF Files
  <1> QED BY <1>1, <1>2, <1>3, <1>4, <1>5 DEF InTurn

LEMMA InitGrants == Init => GrantsInv
  <1> SUFFICES ASSUME Init PROVE InTurn /\ GrantsOwed
    BY DEF GrantsInv
  <1>1. InTurn /\ \A h \in Handler : \A f : ~ Filling(h, f)
    BY InitInTurn
  <1>2. \A c \in Sources : c = FirstConfig
    BY <1>1 DEF Sources, Init, EditInit
  <1> QED BY <1>1, <1>2, EditAssumption DEF GrantsOwed, Init, EditInit

\* However edits overlap, no role is left with an operation that the operations
\* file does not define, although commit writes the config first; unless one
\* edit was written over another, a write failed, the application ended, or an
\* out-of-date page asked for the grant.
THEOREM GrantsAlwaysBacked == Spec => []GrantsBacked
  <1>1. GrantsInv => GrantsBacked
    <2> SUFFICES ASSUME InTurn, GrantsOwed, file.config # Nil,
                        ~ \E h \in Handler : \E i \in DOMAIN req[h].todo : req[h].todo[i] = "ops"
                 PROVE  \A g \in file.config.granted : g[2] \in file.ops
      BY DEF GrantsInv, GrantsBacked
    <2> QED BY DEF GrantsOwed, Sources, Due
  <1> QED BY <1>1, InitGrants, GrantsStep, PTL DEF Spec

-----------------------------------------------------------------------------
(* The blocks of agent-keys.txt.                                           *)

LEMMA FirstHit ==
    ASSUME NEW I, I \subseteq Nat, I # {}
    PROVE  First(I) \in I
  <1>1. PICK x \in I : \A y \in I : ~ (<<y, x>> \in OpToRel(<, Nat))
    BY NatLessThanWellFounded, WFMin, Zenon
  <1>2. \A y \in I : x <= y
    <2>1. \A y \in I : ~ (y < x)
      BY <1>1 DEF OpToRel
    <2> QED BY <2>1
  <1>3. \E z \in I : \A y \in I : z <= y
    BY <1>2
  <1> QED BY <1>3, Zenon DEF First, Least!Min

\* upsertKey adds a block or puts it in place of one that has the label or the
\* old token; all others stay.
LEMMA Upserted ==
    ASSUME NEW B, NEW keys \in Seq(B), NEW label, NEW old, NEW t,
           NEW block, block = [label |-> label, token |-> t], block \in B,
           NEW new, new = upsertKey(keys, label, old, t)
    PROVE  /\ new \in Seq(B)
           /\ \E i \in DOMAIN new : new[i] = block
           /\ \A i \in DOMAIN new : new[i] = block \/ (i \in DOMAIN keys /\ new[i] = keys[i])
           /\ \A i \in DOMAIN keys : \/ i \in DOMAIN new /\ new[i] = keys[i]
                                     \/ keys[i].label = label
                                     \/ keys[i].token = old /\ old # Nil
           /\ \/ \E i \in DOMAIN keys : /\ keys[i].label = label \/ (keys[i].token = old /\ old # Nil)
                                        /\ new = [keys EXCEPT ![i] = block]
                                        /\ i = First(Hits(keys, label, old))
              \/ /\ \A i \in DOMAIN keys : keys[i].label # label /\ (keys[i].token = old => old = Nil)
                 /\ new = Append(keys, block)
  <1> DEFINE hits == {i \in DOMAIN keys : keys[i].label = label} \cup WithToken(keys, old)
  <1>1. new = IF hits = {} THEN Append(keys, block) ELSE [keys EXCEPT ![First(hits)] = block]
    BY DEF upsertKey, Hits
  <1>2. hits \subseteq DOMAIN keys /\ DOMAIN keys = 1..Len(keys) /\ Len(keys) \in Nat
        /\ \A i \in DOMAIN keys : i \in hits <=> keys[i].label = label \/ (keys[i].token = old /\ old # Nil)
    BY DEF WithToken
  <1> HIDE DEF hits
  <1>3. CASE hits = {}
    <2>1. new = Append(keys, block)
      BY <1>1, <1>3
    <2>2. /\ new \in Seq(B) /\ DOMAIN new = 1..(Len(keys) + 1) /\ new[Len(keys) + 1] = block
          /\ \A i \in 1..Len(keys) : new[i] = keys[i]
      BY <2>1, AppendProperties
    <2>3. \A i \in DOMAIN new : new[i] = block \/ (i \in DOMAIN keys /\ new[i] = keys[i])
      BY <1>2, <2>2
    <2>4. \A i \in DOMAIN keys : i \in DOMAIN new /\ new[i] = keys[i]
      BY <1>2, <2>2
    <2>5. Len(keys) + 1 \in DOMAIN new
      BY <1>2, <2>2
    <2>6. \A i \in DOMAIN keys : keys[i].label # label /\ (keys[i].token = old => old = Nil)
      BY <1>2, <1>3
    <2> QED BY <2>1, <2>2, <2>3, <2>4, <2>5, <2>6
  <1>4. CASE hits # {}
    <2>1. First(hits) \in hits
      BY <1>2, <1>4, FirstHit
    <2> DEFINE n == First(hits)
    <2>2. n \in DOMAIN keys /\ (keys[n].label = label \/ (keys[n].token = old /\ old # Nil))
      BY <1>2, <2>1
    <2>3. new = [keys EXCEPT ![n] = block]
      BY <1>1, <1>4
    <2>4. n = First(Hits(keys, label, old))
      BY DEF hits, Hits
    <2> HIDE DEF n
    <2>5. /\ new \in Seq(B) /\ DOMAIN new = DOMAIN keys /\ new[n] = block
          /\ \A i \in DOMAIN keys \ {n} : new[i] = keys[i]
      BY <2>2, <2>3
    <2> QED BY <2>2, <2>3, <2>4, <2>5
  <1> QED BY <1>3, <1>4

\* The token found under a label changes only with a block of that label.
LEMMA LabelUpserted ==
    ASSUME NEW B, NEW keys \in Seq(B), NEW label, NEW old, NEW t,
           NEW block, block = [label |-> label, token |-> t], block \in B,
           NEW new, new = upsertKey(keys, label, old, t), NEW x
    PROVE  /\ x = label /\ old = Nil => keyByLabel(new, x) = t
           /\ x # label /\ (\A i \in DOMAIN keys : keys[i].token = old /\ old # Nil => keys[i].label # x)
                => keyByLabel(new, x) = keyByLabel(keys, x)
  <1> DEFINE at == {i \in DOMAIN keys : keys[i].label = x}
             now == {i \in DOMAIN new : new[i].label = x}
  <1>0. block.label = label /\ block.token = t
    OBVIOUS
  <1>1. DOMAIN keys = 1..Len(keys) /\ Len(keys) \in Nat /\ at \subseteq Nat /\ now \subseteq Nat
    <2>1. new \in Seq(B)
      BY Upserted
    <2> QED BY <2>1
  <1>2. /\ keyByLabel(new, x) = IF now = {} THEN Nil ELSE new[First(now)].token
        /\ keyByLabel(keys, x) = IF at = {} THEN Nil ELSE keys[First(at)].token
    BY DEF keyByLabel
  <1>3. ASSUME NEW i \in DOMAIN keys, new = [keys EXCEPT ![i] = block],
               keys[i].label = label \/ (keys[i].token = old /\ old # Nil),
               i = First(Hits(keys, label, old))
        PROVE  /\ x = label /\ old = Nil => keyByLabel(new, x) = t
               /\ x # label /\ (\A j \in DOMAIN keys : keys[j].token = old /\ old # Nil => keys[j].label # x)
                    => keyByLabel(new, x) = keyByLabel(keys, x)
    <2>1. DOMAIN new = DOMAIN keys /\ new[i] = block /\ \A j \in DOMAIN keys \ {i} : new[j] = keys[j]
      BY <1>3
    <2>2. CASE x = label /\ old = Nil
      <3>1. WithToken(keys, old) = {} /\ keys[i].label = x
        BY <1>3, <2>2 DEF WithToken
      <3>2. i = First(at)
        BY <1>3, <2>2, <3>1 DEF Hits
      <3>3. now = at /\ i \in now
        BY <1>0, <2>1, <2>2, <3>1
      <3> HIDE DEF now, at
      <3> QED BY <1>0, <1>2, <2>1, <2>2, <3>2, <3>3
    <2>3. CASE x # label /\ \A j \in DOMAIN keys : keys[j].token = old /\ old # Nil => keys[j].label # x
      <3>1. keys[i].label # x
        BY <1>3, <2>3
      <3>2. now = at /\ \A j \in at : new[j] = keys[j]
        BY <1>0, <2>1, <2>3, <3>1
      <3>3. at # {} => First(at) \in at
        BY <1>1, FirstHit
      <3> HIDE DEF now, at
      <3>4. keyByLabel(new, x) = keyByLabel(keys, x)
        BY <1>2, <3>2, <3>3
      <3> QED BY <2>3, <3>4
    <2> QED BY <2>2, <2>3
  <1>4. ASSUME \A i \in DOMAIN keys : keys[i].label # label /\ (keys[i].token = old => old = Nil),
               new = Append(keys, block)
        PROVE  /\ x = label /\ old = Nil => keyByLabel(new, x) = t
               /\ x # label => keyByLabel(new, x) = keyByLabel(keys, x)
    <2>1. /\ DOMAIN new = 1..(Len(keys) + 1) /\ new[Len(keys) + 1] = block
          /\ \A j \in 1..Len(keys) : new[j] = keys[j]
      BY <1>4, AppendProperties
    <2>2. \A j \in DOMAIN new : j \in DOMAIN keys \/ j = Len(keys) + 1
      BY <1>1, <2>1
    <2>3. \A j \in DOMAIN keys : j \in DOMAIN new /\ new[j] = keys[j]
      BY <1>1, <2>1
    <2>4. Len(keys) + 1 \in DOMAIN new
      BY <1>1, <2>1
    <2>5. CASE x = label
      <3>1. now = {Len(keys) + 1}
        BY <1>0, <1>4, <2>1, <2>2, <2>3, <2>4, <2>5
      <3>2. First(now) \in now
        BY <1>1, <3>1, FirstHit
      <3> HIDE DEF now
      <3> QED BY <1>0, <1>2, <2>1, <2>5, <3>1, <3>2
    <2>6. CASE x # label
      <3>1. now = at /\ \A j \in at : new[j] = keys[j]
        BY <1>0, <2>1, <2>2, <2>3, <2>6
      <3>2. at # {} => First(at) \in at
        BY <1>1, FirstHit
      <3> HIDE DEF now, at
      <3> QED BY <1>2, <2>6, <3>1, <3>2
    <2> QED BY <2>5, <2>6
  <1> DEFINE P == /\ x = label /\ old = Nil => keyByLabel(new, x) = t
                  /\ x # label /\ (\A j \in DOMAIN keys : keys[j].token = old /\ old # Nil => keys[j].label # x)
                       => keyByLabel(new, x) = keyByLabel(keys, x)
             A(i) == /\ keys[i].label = label \/ (keys[i].token = old /\ old # Nil)
                     /\ new = [keys EXCEPT ![i] = block]
                     /\ i = First(Hits(keys, label, old))
             N == /\ \A i \in DOMAIN keys : keys[i].label # label /\ (keys[i].token = old => old = Nil)
                  /\ new = Append(keys, block)
  <1>5. (\E i \in DOMAIN keys : A(i)) \/ N
    BY Upserted
  <1>6. \A i \in DOMAIN keys : A(i) => P
    BY <1>3
  <1>7. N => P
    BY <1>4
  <1>8. P
    <2> HIDE DEF P, A, N
    <2> QED BY <1>5, <1>6, <1>7
  <1> QED BY <1>8

-----------------------------------------------------------------------------
(* Whom the tokens are for.                                                *)

Grown(m, n) == \A t \in DOMAIN m : t \in DOMAIN n /\ n[t] = m[t]

LEMMA SeqIn ==
    ASSUME NEW S, NEW s \in Seq(S)
    PROVE  /\ \A i \in DOMAIN s : s[i] \in S
           /\ \A T : (\A i \in DOMAIN s : s[i] \in T) => s \in Seq(T)
  <1>1. DOMAIN s = 1..Len(s) /\ Len(s) \in Nat /\ s = [i \in 1..Len(s) |-> s[i]]
    BY LenProperties
  <1>2. \A i \in DOMAIN s : s[i] \in S
    BY <1>1, ElementOfSeq
  <1>3. ASSUME NEW T, \A i \in DOMAIN s : s[i] \in T PROVE s \in Seq(T)
    BY <1>1, <1>3, SeqDef
  <1> QED BY <1>2, <1>3

\* What belongs to someone goes on doing so.
LEMMA OwnGrows ==
    ASSUME NEW m, NEW n, Grown(m, n)
    PROVE  /\ \A c : OwnConfig(c, m) => OwnConfig(c, n)
           /\ \A keys : OwnKeys(keys, m) => OwnKeys(keys, n)
           /\ \A r : OwnToken(r, m) => OwnToken(r, n)
  <1>1. \A t, x : Owned(t, x, m) => Owned(t, x, n)
    BY DEF Grown, Owned
  <1>2. \A c : OwnConfig(c, m) => OwnConfig(c, n)
    BY <1>1 DEF OwnConfig
  <1>3. ASSUME NEW keys, OwnKeys(keys, m) PROVE OwnKeys(keys, n)
    <2>1. keys \in Seq([label : Names, token : DOMAIN m]) /\ DOMAIN m \subseteq DOMAIN n
      BY <1>3 DEF OwnKeys, Grown
    <2>2. \A i \in DOMAIN keys : keys[i] \in [label : Names, token : DOMAIN m]
      BY <2>1, SeqIn
    <2>3. \A i \in DOMAIN keys : keys[i].token \in DOMAIN m /\ keys[i] \in [label : Names, token : DOMAIN n]
      BY <2>1, <2>2
    <2>4. keys \in Seq([label : Names, token : DOMAIN n])
      BY <2>1, <2>3, SeqIn
    <2> QED BY <1>3, <2>3, <2>4 DEF OwnKeys, Grown
  <1>4. \A r : OwnToken(r, m) => OwnToken(r, n)
    BY <1>1, <1>2, <1>3 DEF OwnToken
  <1> QED BY <1>2, <1>3, <1>4

\* A new token is the last one, and the others stay.
LEMMA MadeGrows ==
    ASSUME NEW S, NEW m \in Seq(S), NEW x \in S
    PROVE  /\ Append(m, x) \in Seq(S) /\ Grown(m, Append(m, x))
           /\ Append(m, x)[Len(m) + 1] = x /\ Len(m) + 1 \in DOMAIN Append(m, x)
  <1> DEFINE n == Append(m, x)
  <1>1. /\ n \in Seq(S) /\ Len(n) = Len(m) + 1 /\ n[Len(m) + 1] = x
        /\ \A i \in 1..Len(m) : n[i] = m[i]
    BY AppendProperties
  <1> HIDE DEF n
  <1>2. DOMAIN n = 1..(Len(m) + 1) /\ DOMAIN m = 1..Len(m) /\ Len(m) \in Nat
    BY <1>1
  <1>3. Grown(m, n)
    BY <1>1, <1>2 DEF Grown
  <1> QED BY <1>1, <1>2, <1>3 DEF n

\* The labels of two parties differ, and are labels of the file.
LEMMA LabelsApart ==
    /\ \A x, y \in Party : x # y => \A label : ~ (label \in Labels(x) /\ label \in Labels(y))
    /\ \A x \in Party : x \in Labels(x) /\ Labels(x) \subseteq Names
    /\ AdminLabel \in Party
  BY KeysAssumption DEF Labels, Names, Party

\* A token of x is put under a label of x, in place of another one of x or
\* beside what was there.
LEMMA OwnUpserted ==
    ASSUME NEW m, NEW keys, OwnKeys(keys, m), NEW x \in Party, NEW label \in Labels(x),
           NEW t \in DOMAIN m, m[t] = x, NEW old, Owned(old, x, m),
           NEW new, new = upsertKey(keys, label, old, t)
    PROVE  /\ OwnKeys(new, m)
           /\ \E i \in DOMAIN new : new[i].token = t
           /\ \A u : u \in DOMAIN m /\ m[u] \in Party \ {x} /\ (\E i \in DOMAIN keys : keys[i].token = u)
                        => \E i \in DOMAIN new : new[i].token = u
           /\ label = AdminLabel /\ old = Nil => keyByLabel(new, AdminLabel) = t
           /\ x # AdminLabel => keyByLabel(new, AdminLabel) = keyByLabel(keys, AdminLabel)
  <1> DEFINE B == [label : Names, token : DOMAIN m]
             block == [label |-> label, token |-> t]
  <1>1. keys \in Seq(B) /\ block \in B /\ block.label = label /\ block.token = t
    BY LabelsApart DEF OwnKeys
  <1>2. \A i \in DOMAIN keys : \A y \in Party : m[keys[i].token] = y => keys[i].label \in Labels(y)
    BY DEF OwnKeys
  <1>0. block = [label |-> label, token |-> t]
    OBVIOUS
  <1> HIDE DEF B, block
  <1>3. /\ new \in Seq(B)
        /\ \E i \in DOMAIN new : new[i] = block
        /\ \A i \in DOMAIN new : new[i] = block \/ (i \in DOMAIN keys /\ new[i] = keys[i])
        /\ \A i \in DOMAIN keys : \/ i \in DOMAIN new /\ new[i] = keys[i]
                                  \/ keys[i].label = label
                                  \/ keys[i].token = old /\ old # Nil
    BY <1>0, <1>1, Upserted
  <1>4. /\ AdminLabel = label /\ old = Nil => keyByLabel(new, AdminLabel) = t
        /\ AdminLabel # label /\ (\A i \in DOMAIN keys : keys[i].token = old /\ old # Nil => keys[i].label # AdminLabel)
             => keyByLabel(new, AdminLabel) = keyByLabel(keys, AdminLabel)
    BY <1>0, <1>1, LabelUpserted
  <1>5. \A y \in Party : y # x => label \notin Labels(y)
    BY LabelsApart
  <1>6. \A i \in DOMAIN keys : keys[i].token = old /\ old # Nil => keys[i].label \in Labels(x)
    BY <1>2 DEF Owned
  <1>7. OwnKeys(new, m)
    <2>1. \A y \in Party : m[t] = y => label \in Labels(y)
      OBVIOUS
    <2> QED BY <1>1, <1>2, <1>3, <2>1 DEF OwnKeys, B
  <1>8. ASSUME NEW u, u \in DOMAIN m, m[u] \in Party \ {x}, NEW i \in DOMAIN keys, keys[i].token = u
        PROVE  \E j \in DOMAIN new : new[j].token = u
    <2>1. keys[i].label \in Labels(m[u])
      BY <1>2, <1>8
    <2>2. keys[i].label # label
      BY <1>5, <1>8, <2>1
    <2>3. ~ (keys[i].token = old /\ old # Nil)
      BY <1>8 DEF Owned
    <2> QED BY <1>3, <1>8, <2>2, <2>3
  <1>9. x # AdminLabel => keyByLabel(new, AdminLabel) = keyByLabel(keys, AdminLabel)
    <2>1. x # AdminLabel => label # AdminLabel
      BY <1>5, LabelsApart
    <2>2. x # AdminLabel => \A i \in DOMAIN keys : keys[i].token = old /\ old # Nil => keys[i].label # AdminLabel
      BY <1>6, LabelsApart
    <2> QED BY <1>4, <2>1, <2>2
  <1> QED BY <1>1, <1>3, <1>4, <1>7, <1>8, <1>9

-----------------------------------------------------------------------------
(* The steps, by what becomes of the token of the handler.                 *)

LEMMA IdleOwn == ASSUME NEW m PROVE OwnToken(Idle, m) /\ ~ Records(Idle)
  <1>1. /\ Idle.at = "idle" /\ Idle.todo = << >> /\ Idle.tok = Nil
        /\ Idle.seen.config = Nil /\ Idle.next.config = Nil
    BY DEF Idle, Empty
  <1>2. \A f : ~ Due(Idle, f)
    BY <1>1, NothingDue
  <1> QED BY <1>1, <1>2 DEF OwnToken, OwnConfig, Records

\* The same handler at another place, with nothing to write.
LEMMA OwnMoved ==
    ASSUME NEW m, NEW r, OwnToken(r, m), NEW q, q.seen.config = r.seen.config,
           q.next = r.next, q.tok = r.tok, q.old = r.old, q.edit = r.edit, q.todo = << >>,
           q.at \in {"ops", "edit"} => r.at \in {"ops", "edit"}, q.at # "keys",
           q.at \notin {"write", "fill"}
    PROVE  OwnToken(q, m)
  BY NothingDue DEF OwnToken, Records

\* Steps that write no file: the handler goes on with its token, or has
\* recorded it.
Passes(h, r) ==
    /\ Becomes(h, r) /\ UNCHANGED file
    /\ made' = made \/ \E x \in Party : made' = Append(made, x)
    /\ OwnToken(r, made')
    /\ Records(req[h]) => Records(r) /\ r.tok = req[h].tok /\ r.edit = req[h].edit

LEMMA ReceivePasses ==
    ASSUME InTurn, Ownership, OwnConfig(inst.config, made), NEW h \in Handler,
           OpenConfig(h) \/ ReceiveOrder(h) \/ UseAdminToken(h)
    PROVE  \E r : Passes(h, r)
  <1>1. req[h].at = "idle" /\ UNCHANGED <<file, made>>
    BY DEF OpenConfig, ReceiveOrder, UseAdminToken, Receive, At
  <1>2. ~ Records(req[h])
    BY <1>1 DEF Records
  <1>3. ASSUME NEW r, Becomes(h, r), OwnToken(r, made) PROVE \E q : Passes(h, q)
    BY <1>1, <1>2, <1>3 DEF Passes
  <1>4. CASE OpenConfig(h)
    <2>1. PICK e \in Edit : Receive(h, [Idle EXCEPT !.at = "ops", !.edit = e, !.seen.config = file.config])
      BY <1>4 DEF OpenConfig
    <2> DEFINE r == [Idle EXCEPT !.at = "ops", !.edit = e, !.seen.config = file.config]
    <2>2. /\ r.at = "ops" /\ r.edit = e /\ r.seen.config = file.config /\ r.next.config = Nil
          /\ r.todo = << >> /\ r.tok = Nil
      BY DEF Idle, Empty
    <2>3. Becomes(h, r)
      BY <2>1 DEF Receive
    <2> HIDE DEF r
    <2>4. OwnToken(r, made)
      BY <2>2, NothingDue DEF OwnToken, OwnConfig, Ownership, Records
    <2> QED BY <1>3, <2>3, <2>4
  <1>5. CASE ReceiveOrder(h)
    <2>1. PICK e \in Order : e.kind \in {"publish", "service"}
                                /\ Receive(h, [Idle EXCEPT !.at = e.kind, !.edit = e])
      BY <1>5 DEF ReceiveOrder
    <2> DEFINE r == [Idle EXCEPT !.at = e.kind, !.edit = e]
    <2>2. /\ r.at = e.kind /\ r.seen.config = Nil /\ r.next.config = Nil /\ r.todo = << >> /\ r.tok = Nil
      BY DEF Idle, Empty
    <2>3. Becomes(h, r)
      BY <2>1 DEF Receive
    <2> HIDE DEF r
    <2>4. OwnToken(r, made)
      BY <2>1, <2>2, NothingDue DEF OwnToken, OwnConfig, Records
    <2> QED BY <1>3, <2>3, <2>4
  <1>6. CASE UseAdminToken(h)
    <2>1. PICK e \in Order : e.kind = "use" /\ Receive(h, IF ~ e.remember THEN Idle
                       ELSE [Idle EXCEPT !.at = "keys", !.edit = e, !.tok = inst.config.admin,
                                         !.label = AdminLabel])
      BY <1>6 DEF UseAdminToken
    <2> DEFINE r == [Idle EXCEPT !.at = "keys", !.edit = e, !.tok = inst.config.admin, !.label = AdminLabel]
    <2>2. /\ r.at = "keys" /\ r.edit = e /\ r.seen.config = Nil /\ r.next.config = Nil /\ r.todo = << >>
          /\ r.tok = inst.config.admin /\ r.old = Nil /\ r.label = AdminLabel
      BY DEF Idle, Empty
    <2>3. Becomes(h, r) \/ Becomes(h, Idle)
      BY <2>1 DEF Receive
    <2> HIDE DEF r
    <2>4. PartyOf(e) = AdminLabel /\ AdminLabel \in Party /\ AdminLabel \in Labels(AdminLabel)
      BY <2>1, LabelsApart DEF PartyOf
    <2>5. inst.config.admin # Nil /\ Owned(inst.config.admin, AdminLabel, made)
      BY <1>6, <2>4 DEF UseAdminToken, OwnConfig, TokenIn
    <2>6. \A f : ~ Due(r, f)
      BY <2>2, NothingDue
    <2>7. Owned(Nil, AdminLabel, made) /\ OwnConfig(Nil, made)
      BY DEF Owned, OwnConfig
    <2>8. OwnToken(r, made)
      BY <2>2, <2>4, <2>5, <2>6, <2>7 DEF OwnToken
    <2> QED BY <1>3, <2>3, <2>8, IdleOwn
  <1> QED BY <1>4, <1>5, <1>6

LEMMA PublishPasses ==
    ASSUME InTurn, Ownership, NEW h \in Handler, PublishStep(h)
    PROVE  \E r : Passes(h, r)
  <1>1. UNCHANGED <<file, made>> /\ req[h].at \in {"publish", "service", "wait", "reload"}
    BY DEF PublishStep, StartHelper, Declined, TakeResult, WaitNoLonger, Reload, At, pubVars
  <1>2. req[h].todo = << >>
    BY <1>1, NothingToDo
  <1>3. \/ Answer(h)
        \/ \E i : Becomes(h, [req[h] EXCEPT !.at = "wait", !.helper = i])
        \/ Becomes(h, [req[h] EXCEPT !.at = "reload", !.helper = 0])
        \/ Becomes(h, [req[h] EXCEPT !.at = "service", !.label = "restart"])
    BY DEF PublishStep, StartHelper, Declined, TakeResult, WaitNoLonger, Refused, Reload
  <1>4. OwnToken(req[h], made) /\ ~ Records(req[h]) /\ DOMAIN req[h] = DOMAIN Idle
    BY <1>1 DEF Ownership, Records, InTurn, Formed
  <1>5. ASSUME NEW r, Becomes(h, r), OwnToken(r, made) PROVE \E q : Passes(h, q)
    BY <1>1, <1>4, <1>5 DEF Passes
  <1>6. ASSUME NEW r, Becomes(h, r), r.seen = req[h].seen, r.next = req[h].next, r.tok = req[h].tok,
               r.old = req[h].old, r.edit = req[h].edit, r.todo = req[h].todo,
               r.at \in {"wait", "reload", "service"}
        PROVE  \E q : Passes(h, q)
    BY <1>2, <1>4, <1>5, <1>6, OwnMoved
  <1>7. CASE Answer(h)
    BY <1>5, <1>7, IdleOwn DEF Answer
  <1>8. CASE \E i : Becomes(h, [req[h] EXCEPT !.at = "wait", !.helper = i])
    <2>1. PICK i : Becomes(h, [req[h] EXCEPT !.at = "wait", !.helper = i])
      BY <1>8
    <2> QED BY <1>4, <1>6, <2>1 DEF Idle
  <1>9. CASE Becomes(h, [req[h] EXCEPT !.at = "reload", !.helper = 0])
    BY <1>4, <1>6, <1>9 DEF Idle
  <1>10. CASE Becomes(h, [req[h] EXCEPT !.at = "service", !.label = "restart"])
    BY <1>4, <1>6, <1>10 DEF Idle
  <1> QED BY <1>3, <1>7, <1>8, <1>9, <1>10

LEMMA EditPasses ==
    ASSUME InTurn, Ownership, NEW h \in Handler,
           OpenOps(h) \/ RefuseEdit(h) \/ EditDone(h) \/ KeyRecorded(h)
    PROVE  \E r : Passes(h, r)
  <1>1. UNCHANGED <<file, made>>
    BY DEF OpenOps, RefuseEdit, EditDone, KeyRecorded, Untouched
  <1>2. OwnToken(req[h], made) /\ DOMAIN req[h] = DOMAIN Idle /\ DOMAIN req[h].seen = Files
    BY DEF Ownership, InTurn, Formed
  <1>3. ~ Records(req[h])
    BY DEF OpenOps, RefuseEdit, EditDone, KeyRecorded, At, Records
  <1>4. req[h].todo = << >>
    BY NothingToDo DEF OpenOps, RefuseEdit, EditDone, KeyRecorded, At
  <1>5. ASSUME NEW r, Becomes(h, r), OwnToken(r, made) PROVE \E q : Passes(h, q)
    BY <1>1, <1>3, <1>5 DEF Passes
  <1>6. CASE Answer(h)
    BY <1>5, <1>6, IdleOwn DEF Answer
  <1>7. CASE OpenOps(h)
    <2> DEFINE r == [req[h] EXCEPT !.at = "edit", !.seen.ops = file.ops]
    <2>1. Becomes(h, r) /\ req[h].at = "ops"
      BY <1>7 DEF OpenOps, At
    <2>2. /\ r.at = "edit" /\ r.seen.config = req[h].seen.config /\ r.next = req[h].next
          /\ r.tok = req[h].tok /\ r.old = req[h].old /\ r.edit = req[h].edit /\ r.todo = << >>
      BY <1>2, <1>4 DEF Idle, Files
    <2> HIDE DEF r
    <2>3. OwnToken(r, made)
      BY <1>2, <2>1, <2>2, OwnMoved
    <2> QED BY <1>5, <2>1, <2>3
  <1>8. CASE Becomes(h, [req[h] EXCEPT !.at = "publish"])
    <2> DEFINE r == [req[h] EXCEPT !.at = "publish"]
    <2>1. /\ r.at = "publish" /\ r.seen = req[h].seen /\ r.next = req[h].next
          /\ r.tok = req[h].tok /\ r.old = req[h].old /\ r.edit = req[h].edit /\ r.todo = << >>
      BY <1>2, <1>4 DEF Idle
    <2> HIDE DEF r
    <2>2. OwnToken(r, made)
      BY <1>2, <2>1, OwnMoved
    <2> QED BY <1>5, <1>8, <2>2 DEF r
  <1> QED BY <1>6, <1>7, <1>8 DEF RefuseEdit, EditDone, KeyRecorded, Goes

\* A new token is for the one the edit is about.
LEMMA MakeEditPasses ==
    ASSUME InTurn, Ownership, NEW h \in Handler, MakeEdit(h)
    PROVE  Passes(h, Edited(req[h]))
  <1> DEFINE old == req[h]
             e == old.edit
             c == old.seen.config
             r == Edited(old)
             x == PartyOf(e)
  <1>1. /\ Becomes(h, r) /\ UNCHANGED file /\ old.at = "edit"
        /\ made' = IF TakesToken(e) THEN Append(made, x) ELSE made
    BY DEF MakeEdit, Edited, At
  <1>2. OwnToken(old, made) /\ e \in Edit /\ made \in Seq(Party \cup {Nil}) /\ DOMAIN old = DOMAIN Idle
    BY <1>1 DEF Ownership, OwnToken, InTurn, Formed
  <1>3. /\ r.at = "write" /\ r.edit = e /\ r.seen = old.seen /\ DOMAIN r = DOMAIN Idle
        /\ r.tok = IF TakesToken(e) THEN NextToken ELSE Nil
        /\ r.old = IF e.kind = "regenerate" THEN TokenOf(e, c) ELSE Nil
        /\ r.todo = IF r.next.config # r.seen.config
                    THEN IF r.next.ops # r.seen.ops THEN <<"config", "ops">> ELSE <<"config">>
                    ELSE IF r.next.ops # r.seen.ops THEN <<"ops">> ELSE << >>
    BY <1>2, EditedIs
  <1>4. Formed(r, history')
    BY MakeEditQuiet DEF Quiet
  <1>5. /\ e.kind # "use" /\ (e.kind \in {"regenerate", "agent"} => e.agent \in Agent)
        /\ AdminLabel \notin Agent
    BY <1>2, EditAssumption
  <1>6. /\ TakesToken(e) => x \in Party
        /\ TakesToken(e) /\ x = AdminLabel => e.kind # "regenerate"
        /\ e.kind = "regenerate" => TakesToken(e)
    BY <1>5 DEF TakesToken, PartyOf, Party
  <1>7. /\ made' \in Seq(Party \cup {Nil}) /\ Grown(made, made')
        /\ TakesToken(e) => NextToken \in DOMAIN made' /\ made'[NextToken] = x
    <2>1. CASE TakesToken(e)
      <3>1. made' = Append(made, x) /\ x \in Party \cup {Nil} /\ NextToken = Len(made) + 1
        BY <1>1, <1>6, <2>1 DEF NextToken
      <3> QED BY <1>2, <3>1, MadeGrows
    <2>2. CASE ~ TakesToken(e)
      BY <1>1, <1>2, <2>2 DEF Grown
    <2> QED BY <2>1, <2>2
  <1>8. OwnConfig(c, made') /\ c # Nil
    <2>1. OwnConfig(c, made')
      BY <1>2, <1>7, OwnGrows DEF OwnToken
    <2>2. c # Nil
      BY DEF MakeEdit, Commits
    <2> QED BY <2>1, <2>2
  <1> HIDE DEF r
  <1>9. Owned(r.tok, x, made') /\ (TakesToken(e) => r.tok # Nil)
    <2>1. TakesToken(e) => NextToken # Nil
      BY <1>2, EditAssumption DEF NextToken
    <2> QED BY <1>3, <1>7, <2>1 DEF Owned
  <1>10. TakesToken(e) => Owned(r.old, x, made')
    BY <1>3, <1>6, <1>8 DEF Owned, OwnConfig, TokenOf
  <1>11. OwnConfig(r.next.config, made')
    <2>1. CASE r.next.config = c
      BY <1>8, <2>1
    <2>2. CASE r.next.config # c
      <3>1. Due(r, "config")
        BY <1>3, <2>2, OneDue, TwoDue
      <3>2. /\ Whole(r.next.config)
            /\ \A y \in Party : \/ TokenIn(r.next.config, y) = TokenIn(c, y)
                                \/ y = x /\ TokenIn(r.next.config, y) = r.tok
        BY <1>3, <1>4, <3>1 DEF Formed, Fits
      <3> QED BY <1>8, <1>9, <3>2 DEF OwnConfig
    <2> QED BY <2>1, <2>2
  <1>12. ~ Due(r, "keys")
    <2>1. r.todo \in {<< >>, <<"config">>, <<"ops">>, <<"config", "ops">>}
      BY <1>3
    <2> QED BY <2>1, NothingDue, OneDue, TwoDue
  <1>13. OwnToken(r, made')
    BY <1>3, <1>5, <1>6, <1>8, <1>9, <1>10, <1>11, <1>12 DEF OwnToken
  <1>14. made' = made \/ \E y \in Party : made' = Append(made, y)
    BY <1>1, <1>6
  <1> QED BY <1>1, <1>13, <1>14 DEF Passes, r, Records

\* The label is the user's for the token that is replaced, or the party's own.
LEMMA LabelKeyPasses ==
    ASSUME InTurn, Ownership, NEW h \in Handler, LabelKey(h)
    PROVE  \E r : Passes(h, r)
  <1> DEFINE old == req[h]
             e == old.edit
             x == PartyOf(e)
             hits == WithToken(file.keys, old.old)
             label == IF hits # {} THEN file.keys[First(hits)].label
                      ELSE IF e.kind = "admin" THEN AdminLabel ELSE e.agent
             r == [old EXCEPT !.at = "keys", !.label = label]
  <1>1. /\ Becomes(h, r) /\ UNCHANGED <<file, made>> /\ old.at = "write" /\ old.todo = << >> /\ old.tok # Nil
        /\ ~ Recorded(old)
    BY DEF LabelKey, At, Untouched
  <1>2. OwnToken(old, made) /\ OwnKeys(file.keys, made) /\ DOMAIN old = DOMAIN Idle
    BY DEF Ownership, InTurn, Formed
  <1>3. /\ r.at = "keys" /\ r.todo = << >> /\ r.tok = old.tok /\ r.old = old.old /\ r.edit = e
        /\ r.seen = old.seen /\ r.next = old.next /\ r.label = label
    BY <1>1, <1>2 DEF Idle
  <1>4. /\ x \in Party /\ Owned(old.tok, x, made) /\ Owned(old.old, x, made)
        /\ x = AdminLabel => old.old = Nil
    BY <1>1, <1>2 DEF OwnToken
  <1>5. e.kind # "use"
    BY <1>1, <1>2, NothingDue DEF OwnToken, Records
  <1>6. label \in Labels(x)
    <2>1. CASE hits # {}
      <3>1. hits \subseteq Nat /\ hits \subseteq DOMAIN file.keys
        <4>1. DOMAIN file.keys \subseteq Nat
          BY <1>2 DEF OwnKeys
        <4> QED BY <4>1 DEF WithToken
      <3>2. First(hits) \in hits
        BY <2>1, <3>1, FirstHit
      <3>3. file.keys[First(hits)].token = old.old /\ old.old # Nil
        BY <3>2 DEF WithToken
      <3> QED BY <1>2, <1>4, <2>1, <3>1, <3>2, <3>3 DEF OwnKeys, Owned
    <2>2. CASE hits = {}
      BY <1>4, <1>5, <2>2, LabelsApart DEF PartyOf
    <2> QED BY <2>1, <2>2
  <1>7. x = AdminLabel => label = AdminLabel
    <2>1. old.old = Nil => hits = {}
      BY DEF WithToken
    <2> QED BY <1>4, <1>5, <2>1 DEF PartyOf
  <1> HIDE DEF r, label
  <1>8. OwnToken(r, made)
    BY <1>1, <1>2, <1>3, <1>4, <1>6, <1>7, NothingDue DEF OwnToken
  <1>9. Records(r)
    BY <1>1, <1>3 DEF Records
  <1> QED BY <1>1, <1>3, <1>8, <1>9 DEF Passes

LEMMA ReadKeysPasses ==
    ASSUME InTurn, Ownership, NEW h \in Handler, ReadKeys(h)
    PROVE  \E r : Passes(h, r)
  <1> DEFINE old == req[h]
             x == PartyOf(old.edit)
             keys == upsertKey(file.keys, old.label, old.old, old.tok)
             r == [old EXCEPT !.at = "write", !.todo = <<"keys">>,
                              !.seen.keys = file.keys, !.next.keys = keys]
  <1>1. Becomes(h, r) /\ UNCHANGED <<file, made>> /\ old.at = "keys"
    BY DEF ReadKeys, At, Untouched
  <1>2. /\ OwnToken(old, made) /\ OwnKeys(file.keys, made) /\ DOMAIN old = DOMAIN Idle
        /\ DOMAIN old.seen = Files /\ DOMAIN old.next = Files
    BY DEF Ownership, InTurn, Formed
  <1>3. /\ r.at = "write" /\ r.todo = <<"keys">> /\ r.tok = old.tok /\ r.old = old.old
        /\ r.edit = old.edit /\ r.label = old.label /\ r.seen.config = old.seen.config
        /\ r.next.config = old.next.config /\ r.seen.keys = file.keys /\ r.next.keys = keys
    BY <1>2 DEF Idle, Files
  <1>4. /\ old.tok # Nil /\ x \in Party /\ Owned(old.tok, x, made) /\ Owned(old.old, x, made)
        /\ x = AdminLabel => old.old = Nil
        /\ old.label \in Labels(x) /\ (x = AdminLabel => old.label = AdminLabel)
    BY <1>1, <1>2 DEF OwnToken
  <1>5. OwnKeys(keys, made)
    BY <1>2, <1>4, OwnUpserted DEF Owned
  <1> HIDE DEF r, keys
  <1>6. r.todo # << >> /\ Due(r, "keys")
    BY <1>3, OneDue
  <1>7. keys = upsertKey(r.seen.keys, r.label, r.old, r.tok)
    BY <1>3 DEF keys
  <1>8. OwnToken(r, made)
    BY <1>2, <1>3, <1>4, <1>5, <1>6, <1>7 DEF OwnToken
  <1>9. Records(r)
    BY <1>3, <1>4, <1>6 DEF Records
  <1> QED BY <1>1, <1>3, <1>8, <1>9 DEF Passes

-----------------------------------------------------------------------------
(* Writing the files.                                                      *)

\* What recording a token does to the blocks that were read.
LEMMA KeyUpserted ==
    ASSUME NEW m, NEW r, OwnToken(r, m), Due(r, "keys")
    PROVE  /\ \E i \in DOMAIN r.next.keys : r.next.keys[i].token = r.tok
           /\ \A u : /\ u \in DOMAIN m /\ m[u] \in Party \ {PartyOf(r.edit)}
                     /\ \E i \in DOMAIN r.seen.keys : r.seen.keys[i].token = u
                     => \E i \in DOMAIN r.next.keys : r.next.keys[i].token = u
           /\ keyByLabel(r.next.keys, AdminLabel) =
                 IF PartyOf(r.edit) = AdminLabel THEN r.tok ELSE keyByLabel(r.seen.keys, AdminLabel)
  <1> DEFINE keys == r.seen.keys
             new == r.next.keys
             x == PartyOf(r.edit)
             label == r.label
             old == r.old
             t == r.tok
  <1>1. /\ t # Nil /\ x \in Party /\ Owned(t, x, m) /\ Owned(old, x, m) /\ label \in Labels(x)
        /\ (x = AdminLabel => old = Nil /\ label = AdminLabel)
        /\ OwnKeys(keys, m) /\ new = upsertKey(keys, label, old, t)
    BY DEF OwnToken
  <1> HIDE DEF keys, new, x, label, old, t
  <1>2. t \in DOMAIN m /\ m[t] = x
    BY <1>1 DEF Owned
  <1>3. /\ \E i \in DOMAIN new : new[i].token = t
        /\ \A u : u \in DOMAIN m /\ m[u] \in Party \ {x} /\ (\E i \in DOMAIN keys : keys[i].token = u)
                     => \E i \in DOMAIN new : new[i].token = u
        /\ label = AdminLabel /\ old = Nil => keyByLabel(new, AdminLabel) = t
        /\ x # AdminLabel => keyByLabel(new, AdminLabel) = keyByLabel(keys, AdminLabel)
    BY <1>1, <1>2, OwnUpserted
  <1> QED BY <1>1, <1>3 DEF keys, new, x, label, old, t

LEMMA NoKeys == ASSUME NEW m PROVE OwnKeys(<< >>, m)
  <1> DEFINE keys == << >>
             B == [label : Names, token : DOMAIN m]
  <1>1. keys \in Seq(B) /\ Len(keys) = 0
    BY EmptySeq
  <1> HIDE DEF keys, B
  <1>2. DOMAIN keys = 1..Len(keys)
    BY <1>1, LenProperties
  <1>3. \A i \in DOMAIN keys : FALSE
    BY <1>1, <1>2
  <1>4. OwnKeys(keys, m)
    BY <1>1, <1>3 DEF OwnKeys, B
  <1> QED BY <1>4 DEF keys

LEMMA TruncateOwns ==
    ASSUME InTurn, Ownership, NEW h \in Handler, Truncate(h), "stale source" \notin history'
    PROVE  Ownership'
  <1> DEFINE f == Head(req[h].todo)
             old == req[h]
             r == req'[h]
  <1>1. /\ old.at = "write" /\ r.at = "fill" /\ r.todo = old.todo /\ r.seen = old.seen
        /\ r.next = old.next /\ r.edit = old.edit /\ r.tok = old.tok /\ r.old = old.old
        /\ r.label = old.label /\ file'[f] = Empty[f]
    BY TruncateForms DEF At
  <1>2. /\ f \in Files /\ old.todo # << >> /\ \A k \in Handler \ {h} : req'[k] = req[k]
        /\ \A g \in Files \ {f} : file'[g] = file[g]
    BY WriterMoves
  <1>3. made' = made /\ OwnToken(old, made) /\ OwnConfig(file.config, made) /\ OwnKeys(file.keys, made)
    BY DEF Truncate, Ownership
  <1> HIDE DEF r, f
  <1>4. OwnToken(r, made)
    <2>1. \A g : Due(r, g) <=> Due(old, g)
      BY <1>1 DEF Due
    <2>2. Records(r) <=> Records(old)
      BY <1>1, <1>2 DEF Records
    <2> QED BY <1>1, <1>3, <2>1, <2>2 DEF OwnToken
  <1>0. Empty["config"] = Nil /\ Empty["keys"] = << >>
    BY DEF Empty
  <1>5. OwnConfig(file'.config, made)
    <2>1. OwnConfig(Nil, made)
      BY DEF OwnConfig
    <2> QED BY <1>0, <1>1, <1>2, <1>3, <2>1 DEF Files
  <1>6. OwnKeys(file'.keys, made)
    <2>1. OwnKeys(<< >>, made)
      BY NoKeys
    <2> QED BY <1>0, <1>1, <1>2, <1>3, <2>1 DEF Files
  <1>7. \A k \in Handler : OwnToken(req'[k], made)
    BY <1>2, <1>4 DEF Ownership, r
  <1> QED BY <1>3, <1>5, <1>6, <1>7 DEF Ownership

LEMMA FillOwns ==
    ASSUME InTurn, Ownership, NEW h \in Handler, Fill(h)
    PROVE  Ownership'
  <1> DEFINE f == Head(req[h].todo)
             old == req[h]
             r == req'[h]
  <1>1. /\ f \in Files /\ Due(old, f) /\ Filling(h, f) /\ file'[f] = old.next[f]
        /\ r.at = "write" /\ r.todo = Tail(old.todo) /\ r.next = old.next
        /\ r.edit = old.edit /\ r.tok = old.tok /\ r.old = old.old /\ r.label = old.label
        /\ r.seen[f] = old.next[f] /\ \A g \in Files \ {f} : r.seen[g] = old.seen[g]
    BY WriterMoves, FillForms, FillDue
  <1>2. /\ Formed(old, history) /\ \A k \in Handler \ {h} : req'[k] = req[k]
        /\ \A g \in Files \ {f} : file'[g] = file[g]
    BY WriterMoves
  <1>3. made' = made /\ OwnToken(old, made) /\ OwnConfig(file.config, made) /\ OwnKeys(file.keys, made)
    BY DEF Fill, Ownership
  <1>4. ~ Due(r, "keys") /\ ~ Due(r, "config") /\ (f = "keys" => r.todo = << >>)
    <2>1. \A g : Due(r, g) <=> Due(old, g) /\ g # f
      <3>1. \A g : Due(req[h], g)' <=> Due(req[h], g) /\ g # f
        BY FillDue
      <3> QED BY <3>1 DEF Due
    <2>2. (Due(old, "keys") => f = "keys") /\ (Due(old, "config") => f = "config") /\ (f = "keys" => Tail(old.todo) = << >>)
      BY <1>1, <1>2, DueForms DEF Formed
    <2> QED BY <1>1, <2>1, <2>2
  <1> HIDE DEF r, f
  <1>5. OwnConfig(r.seen.config, made)
    BY <1>1, <1>3 DEF OwnToken, Files
  <1>6. ~ (Records(r) /\ r.edit.kind = "use")
    <2>1. CASE f = "keys"
      <3>1. r.next.keys # << >>
        <4>1. \E i \in DOMAIN old.next.keys : old.next.keys[i].token = old.tok
          BY <1>1, <1>3, <2>1, KeyUpserted
        <4> QED BY <1>1, <4>1
      <3> QED BY <1>1, <1>4, <2>1, <3>1 DEF Records, Recorded
    <2>2. CASE f # "keys"
      BY <1>1, <1>2, <2>2 DEF Formed, Fits, Files
    <2> QED BY <2>1, <2>2
  <1>7. OwnToken(r, made)
    BY <1>1, <1>3, <1>4, <1>5, <1>6 DEF OwnToken
  <1>8. OwnConfig(file'.config, made)
    BY <1>1, <1>2, <1>3 DEF OwnToken, Files
  <1>9. OwnKeys(file'.keys, made)
    BY <1>1, <1>2, <1>3 DEF OwnToken, Files
  <1>10. \A k \in Handler : OwnToken(req'[k], made)
    BY <1>2, <1>7 DEF Ownership, r
  <1> QED BY <1>3, <1>8, <1>9, <1>10 DEF Ownership

-----------------------------------------------------------------------------
(* One handler at a time writes agent-keys.txt.                            *)

LEMMA TruncateKeys ==
    ASSUME InTurn, OneWriter("keys"), NEW h \in Handler, Truncate(h),
           "stale source" \notin history', "stale keys" \notin history'
    PROVE  /\ OneWriter("keys")'
           /\ Head(req[h].todo) # "keys" => KeyTexts' = KeyTexts
           /\ Head(req[h].todo) = "keys" =>
                 /\ KeyTexts = {req[h].seen.keys} /\ KeyTexts' = {req[h].next.keys}
                 /\ "superseded" \notin history' => ~ Superseded(req[h])
  <1> DEFINE f == Head(req[h].todo)
  <1>1. /\ \A k \in Handler : \A g : Filling(k, g)' <=> Filling(k, g) \/ (k = h /\ g = f)
        /\ file'[f] = Empty[f] /\ f \in Files /\ \A g \in Files \ {f} : file'[g] = file[g]
        /\ \A k \in Handler : req'[k].next = req[k].next
    <2>1. /\ \A k \in Handler : \A g : Filling(k, g)' <=> Filling(k, g) \/ (k = h /\ g = f)
          /\ file'[f] = Empty[f] /\ req'[h].next = req[h].next
      BY TruncateForms
    <2>2. /\ f \in Files /\ \A g \in Files \ {f} : file'[g] = file[g]
          /\ \A k \in Handler \ {h} : req'[k] = req[k]
      BY WriterMoves
    <2> HIDE DEF f
    <2> QED BY <2>1, <2>2
  <1>2. f = "keys" => ~ Torn("keys") /\ file.keys = req[h].seen.keys
                      /\ ("superseded" \notin history' => ~ Superseded(req[h]))
    BY DEF Truncate
  <1> HIDE DEF f
  <1>3. CASE f # "keys"
    <2>1. (\A k \in Handler : Filling(k, "keys")' <=> Filling(k, "keys")) /\ file'.keys = file.keys
      BY <1>1, <1>3 DEF Files
    <2>2. Torn("keys")' <=> Torn("keys")
      BY <2>1 DEF Torn
    <2>3. OneWriter("keys")'
      BY <2>1, <2>2 DEF OneWriter
    <2> DEFINE F == {k \in Handler : Filling(k, "keys")}
    <2>4. F' = F
      BY <2>1
    <2>5. {req[k].next.keys : k \in F}' = {req[k].next.keys : k \in F}
      BY <1>1, <2>4
    <2> QED BY <1>3, <2>1, <2>2, <2>3, <2>5 DEF KeyTexts, f
  <1>4. CASE f = "keys"
    <2>1. (\A k \in Handler : Filling(k, "keys")' <=> k = h) /\ file'.keys = Empty.keys
      BY <1>1, <1>2, <1>4 DEF Torn
    <2>2. Torn("keys")' /\ OneWriter("keys")'
      BY <2>1 DEF Torn, OneWriter
    <2>3. {k \in Handler : Filling(k, "keys")'} = {h}
      BY <2>1
    <2>4. KeyTexts' = {req[h].next.keys}
      BY <1>1, <2>2, <2>3 DEF KeyTexts
    <2>5. KeyTexts = {req[h].seen.keys}
      BY <1>2, <1>4 DEF KeyTexts
    <2> QED BY <1>2, <1>4, <2>2, <2>4, <2>5 DEF f
  <1> QED BY <1>3, <1>4

LEMMA FillKeys ==
    ASSUME InTurn, OneWriter("keys"), NEW h \in Handler, Fill(h)
    PROVE  /\ OneWriter("keys")' /\ KeyTexts' = KeyTexts
           /\ Head(req[h].todo) = "keys" => KeyTexts = {req[h].next.keys}
  <1> DEFINE f == Head(req[h].todo)
  <1>1. /\ Filling(h, f) /\ \A k \in Handler : \A g : Filling(k, g)' <=> Filling(k, g) /\ k # h
        /\ file'[f] = req[h].next[f] /\ f \in Files /\ \A g \in Files \ {f} : file'[g] = file[g]
        /\ \A k \in Handler : req'[k].next = req[k].next
    BY FillForms, WriterMoves
  <1>2. \A g : Filling(h, g) => g = f
    BY DEF Filling
  <1> HIDE DEF f
  <1>3. CASE f # "keys"
    <2>1. (\A k \in Handler : Filling(k, "keys")' <=> Filling(k, "keys")) /\ file'.keys = file.keys
      BY <1>1, <1>2, <1>3 DEF Files
    <2>2. Torn("keys")' <=> Torn("keys")
      BY <2>1 DEF Torn
    <2>3. OneWriter("keys")'
      BY <2>1, <2>2 DEF OneWriter
    <2> DEFINE F == {k \in Handler : Filling(k, "keys")}
    <2>4. F' = F
      BY <2>1
    <2>5. {req[k].next.keys : k \in F}' = {req[k].next.keys : k \in F}
      BY <1>1, <2>4
    <2> QED BY <1>3, <2>1, <2>2, <2>3, <2>5 DEF KeyTexts, f
  <1>4. CASE f = "keys"
    <2>1. \A k \in Handler : Filling(k, "keys") <=> k = h
      BY <1>1, <1>4 DEF OneWriter
    <2>2. Torn("keys") /\ {k \in Handler : Filling(k, "keys")} = {h}
      BY <2>1 DEF Torn
    <2>3. KeyTexts = {req[h].next.keys}
      BY <2>2 DEF KeyTexts
    <2>4. ~ Torn("keys")' /\ file'.keys = req[h].next.keys
      BY <1>1, <1>4, <2>1 DEF Torn
    <2>5. KeyTexts' = {req[h].next.keys} /\ OneWriter("keys")'
      BY <2>4 DEF KeyTexts, OneWriter, Torn
    <2> QED BY <2>3, <2>5
  <1> QED BY <1>3, <1>4

-----------------------------------------------------------------------------
(* What the source has is recorded or owed.                                *)

LEMMA SourcesOwned ==
    ASSUME InTurn, Ownership, NEW c \in Sources
    PROVE  c # Nil /\ \A x \in Party : Owned(TokenIn(c, x), x, made)
  <1>1. c # Nil /\ (c = file.config \/ \E h \in Handler : Filling(h, "config") /\ c = req[h].next.config)
    BY SourcesAre
  <1>2. OwnConfig(c, made)
    BY <1>1 DEF Ownership, OwnToken
  <1> QED BY <1>1, <1>2 DEF OwnConfig

LEMMA RecordingStays ==
    ASSUME NEW h \in Handler, \A k \in Handler \ {h} : req'[k] = req[k],
           Records(req[h]) => Records(req'[h]) /\ req'[h].tok = req[h].tok /\ req'[h].edit = req[h].edit
    PROVE  \A t : Recording(t) => Recording(t)'
  BY DEF Recording

LEMMA OwedBy ==
    ASSUME \A c \in Sources' : \A keys \in KeyTexts' :
              /\ \A x \in Party : \A t : t = TokenIn(c, x) =>
                    t = Nil \/ Recording(t)' \/ \E i \in DOMAIN keys : keys[i].token = t
              /\ \A t : t = c.admin => Recording(t)' \/ keyByLabel(keys, AdminLabel) = t
    PROVE  KeysOwed'
  BY DEF KeysOwed

LEMMA TruncateKeysOwed ==
    ASSUME InTurn, OneWriter("keys"), Ownership, KeysOwed, NEW h \in Handler, Truncate(h),
           "stale source" \notin history', "stale keys" \notin history', "superseded" \notin history'
    PROVE  KeysOwed'
  <1> DEFINE f == Head(req[h].todo)
             old == req[h]
             p == PartyOf(old.edit)
  <1>1. /\ old.at = "write" /\ req'[h].at = "fill" /\ req'[h].todo = old.todo
        /\ req'[h].next = old.next /\ req'[h].edit = old.edit /\ req'[h].tok = old.tok
        /\ f \in Files /\ old.todo # << >> /\ Due(old, f) /\ Formed(old, history)
        /\ \A k \in Handler \ {h} : req'[k] = req[k]
        /\ \A g \in Files \ {f} : file'[g] = file[g]
        /\ \A k \in Handler : \A g : Filling(k, g)' <=> Filling(k, g) \/ (k = h /\ g = f)
    BY TruncateForms, WriterMoves, DueForms DEF At, Formed
  <1>2. /\ f # "keys" => KeyTexts' = KeyTexts
        /\ f = "keys" => /\ KeyTexts = {old.seen.keys} /\ KeyTexts' = {old.next.keys}
                         /\ ~ Superseded(old)
    BY TruncateKeys
  <1>3. \A t : Recording(t) => Recording(t)'
    BY <1>1, RecordingStays DEF Records
  <1>4. \A k \in Handler : req'[k].next = req[k].next
    BY <1>1
  <1> HIDE DEF f
  <1>5. CASE f # "config"
    <2>1. \A k \in Handler : Filling(k, "config")' <=> Filling(k, "config")
      BY <1>1, <1>5
    <2>2. file'.config = file.config
      BY <1>1, <1>5 DEF Files
    <2>3. \A c : c \in Sources' => c \in Sources
      BY <1>4, <2>1, <2>2 DEF Sources
    <2>4. CASE f = "keys"
      <3> DEFINE keys == old.seen.keys
                 new == old.next.keys
      <3>1. OwnToken(old, made) /\ Due(old, "keys")
        BY <1>1, <2>4 DEF Ownership
      <3>3. /\ \E i \in DOMAIN new : new[i].token = old.tok
            /\ \A u : u \in DOMAIN made /\ made[u] \in Party \ {p} /\ (\E i \in DOMAIN keys : keys[i].token = u)
                         => \E i \in DOMAIN new : new[i].token = u
            /\ keyByLabel(new, AdminLabel) = IF p = AdminLabel THEN old.tok ELSE keyByLabel(keys, AdminLabel)
        BY <3>1, KeyUpserted
      <3> HIDE DEF keys, new
      <3>4. KeyTexts = {keys} /\ KeyTexts' = {new}
        BY <1>2, <2>4 DEF keys, new
      <3>5. \A c \in Sources : TokenIn(c, p) = old.tok
        BY <1>2, <2>4 DEF Superseded, TokenOf
      <3>6. ASSUME NEW c \in Sources, NEW x \in Party
            PROVE  \/ TokenIn(c, x) = Nil \/ Recording(TokenIn(c, x))
                   \/ \E i \in DOMAIN new : new[i].token = TokenIn(c, x)
        <4>1. CASE x = p
          BY <3>3, <3>5, <4>1
        <4>2. CASE x # p
          <5> DEFINE t == TokenIn(c, x)
          <5>1. t = Nil \/ Recording(t) \/ \E i \in DOMAIN keys : keys[i].token = t
            BY <3>4 DEF KeysOwed
          <5>2. Owned(t, x, made)
            BY SourcesOwned
          <5> HIDE DEF t
          <5>3. t # Nil => t \in DOMAIN made /\ made[t] \in Party \ {p}
            BY <4>2, <5>2 DEF Owned
          <5>4. t = Nil \/ Recording(t) \/ \E i \in DOMAIN new : new[i].token = t
            BY <3>3, <5>1, <5>3
          <5> QED BY <5>4 DEF t
        <4> QED BY <4>1, <4>2
      <3>7. ASSUME NEW c \in Sources PROVE Recording(c.admin) \/ keyByLabel(new, AdminLabel) = c.admin
        <4>1. CASE p = AdminLabel
          <5>1. c.admin = old.tok
            BY <3>5, <4>1 DEF TokenIn
          <5> QED BY <3>1, <3>3, <4>1, <5>1
        <4>2. CASE p # AdminLabel
          BY <3>3, <3>4, <4>2 DEF KeysOwed
        <4> QED BY <4>1, <4>2
      <3>8. ASSUME NEW c \in Sources', NEW keys1 \in KeyTexts'
            PROVE  c \in Sources /\ keys1 = new
        BY <2>3, <3>4, <3>8
      <3> QED BY <1>3, <3>6, <3>7, <3>8, ZenonT(60) DEF KeysOwed
    <2>5. CASE f # "keys"
      BY <1>2, <1>3, <2>3, <2>5 DEF KeysOwed
    <2> QED BY <2>4, <2>5
  <1>6. CASE f = "config"
    <2>1. ~ Torn("config") /\ file.config = old.seen.config
      BY <1>6, TruncateForms DEF Copied, f
    <2>2. file'.config = Nil
      <3>1. file'[f] = Empty[f] /\ Empty["config"] = Nil
        BY TruncateForms DEF Empty, f
      <3> QED BY <1>6, <3>1
    <2>3. \A k \in Handler : Filling(k, "config")' <=> k = h
      BY <1>1, <1>6, <2>1 DEF Torn
    <2>4. ASSUME NEW c \in Sources' PROVE c = old.next.config
      <3>1. PICK k \in Handler : Filling(k, "config")' /\ c = req'[k].next.config
        BY <2>2 DEF Sources
      <3> QED BY <1>4, <2>3, <3>1
    <2>5. Fits(old, history) /\ Due(old, "config") /\ old.seen.config \in Sources
      BY <1>1, <1>6, <2>1 DEF Formed, Fits, Sources
    <2>6. \A t : t = old.tok /\ t # Nil => Recording(t)'
      BY <1>1, <2>5 DEF Recording, Records, Fits
    <2>7. \A x \in Party : LET t == TokenIn(old.next.config, x)
                          IN  t = TokenIn(old.seen.config, x) \/ t = old.tok
      BY <2>5 DEF Fits
    <2>8. KeyTexts' = KeyTexts
      BY <1>2, <1>6
    <2>9. ASSUME NEW keys \in KeyTexts, NEW x \in Party, NEW t, t = TokenIn(old.next.config, x)
          PROVE  t = Nil \/ Recording(t)' \/ \E i \in DOMAIN keys : keys[i].token = t
      <3>1. t = TokenIn(old.seen.config, x) \/ t = old.tok
        BY <2>7, <2>9
      <3>2. CASE t = old.tok
        BY <2>6, <3>2
      <3>3. CASE t = TokenIn(old.seen.config, x)
        <4>1. t = Nil \/ Recording(t) \/ \E i \in DOMAIN keys : keys[i].token = t
          BY <2>5, <3>3 DEF KeysOwed
        <4> QED BY <1>3, <4>1
      <3> QED BY <3>1, <3>2, <3>3
    <2>10. ASSUME NEW keys \in KeyTexts, NEW t, t = old.next.config.admin
           PROVE  Recording(t)' \/ keyByLabel(keys, AdminLabel) = t
      <3>1. t = old.seen.config.admin \/ (t = old.tok /\ TakesToken(old.edit))
        BY <2>5, <2>10, LabelsApart DEF Fits, TokenIn
      <3>2. CASE t = old.seen.config.admin
        <4>1. Recording(t) \/ keyByLabel(keys, AdminLabel) = t
          BY <2>5, <3>2 DEF KeysOwed
        <4> QED BY <1>3, <4>1
      <3>3. CASE t = old.tok /\ TakesToken(old.edit)
        <4>1. old.tok # Nil
          BY <2>5, <3>3 DEF Ownership, OwnToken
        <4> QED BY <2>6, <3>3, <4>1
      <3> QED BY <3>1, <3>2, <3>3
    <2>11. ASSUME NEW c \in Sources', NEW keys \in KeyTexts'
           PROVE  /\ \A x \in Party : \A t : t = TokenIn(c, x) =>
                        t = Nil \/ Recording(t)' \/ \E i \in DOMAIN keys : keys[i].token = t
                  /\ \A t : t = c.admin => Recording(t)' \/ keyByLabel(keys, AdminLabel) = t
      <3>1. c = old.next.config /\ keys \in KeyTexts
        BY <2>4, <2>8, <2>11
      <3>2. \A x \in Party : \A t : t = TokenIn(old.next.config, x) =>
                        t = Nil \/ Recording(t)' \/ \E i \in DOMAIN keys : keys[i].token = t
        BY <2>9, <3>1
      <3>3. \A t : t = old.next.config.admin => Recording(t)' \/ keyByLabel(keys, AdminLabel) = t
        BY <2>10, <3>1
      <3> HIDE DEF old
      <3>4. \A x \in Party : \A t : t = TokenIn(c, x) =>
                        t = Nil \/ Recording(t)' \/ \E i \in DOMAIN keys : keys[i].token = t
        BY <3>1, <3>2
      <3>5. \A t : t = c.admin => Recording(t)' \/ keyByLabel(keys, AdminLabel) = t
        BY <3>1, <3>3
      <3> QED BY <3>4, <3>5
    <2> QED BY <2>11, OwedBy
  <1> QED BY <1>5, <1>6

LEMMA FillKeysOwed ==
    ASSUME InTurn, OneWriter("keys"), Ownership, KeysOwed, NEW h \in Handler, Fill(h)
    PROVE  KeysOwed'
  <1> DEFINE f == Head(req[h].todo)
             old == req[h]
             r == req'[h]
  <1>1. /\ f \in Files /\ Due(old, f) /\ Filling(h, f) /\ Formed(old, history)
        /\ r.at = "write" /\ r.next = old.next /\ r.edit = old.edit /\ r.tok = old.tok
        /\ \A g \in Files \ {f} : r.seen[g] = old.seen[g]
        /\ \A k \in Handler \ {h} : req'[k] = req[k]
    BY WriterMoves, FillForms, FillDue
  <1>2. KeyTexts' = KeyTexts /\ (f = "keys" => KeyTexts = {old.next.keys})
    BY FillKeys
  <1>3. \A c : c \in Sources' => c \in Sources
    BY FillSources
  <1> HIDE DEF f, r
  <1>4. CASE f # "keys"
    <2>1. Fits(old, history)
      BY <1>1, <1>4 DEF Formed, Files
    <2>2. ~ Recorded(r)
      BY <1>1, <1>4, <2>1 DEF Fits, Recorded, Files
    <2>3. Records(old) => Records(r)
      BY <1>1, <2>2 DEF Records
    <2>4. \A t : Recording(t) => Recording(t)'
      BY <1>1, <2>3, RecordingStays DEF r
    <2> QED BY <1>2, <1>3, <2>4 DEF KeysOwed
  <1>5. CASE f = "keys"
    <2> DEFINE new == old.next.keys
               p == PartyOf(old.edit)
    <2>1. OwnToken(old, made) /\ Due(old, "keys")
      BY <1>1, <1>5 DEF Ownership
    <2>2. /\ \E i \in DOMAIN new : new[i].token = old.tok
          /\ p = AdminLabel => keyByLabel(new, AdminLabel) = old.tok
      BY <2>1, KeyUpserted
    <2>3. old.tok # Nil /\ Owned(old.tok, p, made)
      BY <2>1 DEF OwnToken
    <2>4. \A t : Recording(t) => t = old.tok \/ Recording(t)'
      BY <1>1 DEF Recording
    <2> HIDE DEF new, p
    <2>5. ASSUME NEW c \in Sources', NEW keys \in KeyTexts'
          PROVE  /\ \A x \in Party : \A t : t = TokenIn(c, x) =>
                       t = Nil \/ Recording(t)' \/ \E i \in DOMAIN keys : keys[i].token = t
                 /\ \A t : t = c.admin => Recording(t)' \/ keyByLabel(keys, AdminLabel) = t
      <3>1. c \in Sources /\ keys = new /\ keys \in KeyTexts
        BY <1>2, <1>3, <1>5, <2>5 DEF new
      <3>2. ASSUME NEW x \in Party, NEW t, t = TokenIn(c, x)
            PROVE  t = Nil \/ Recording(t)' \/ \E i \in DOMAIN keys : keys[i].token = t
        <4>1. t = Nil \/ Recording(t) \/ \E i \in DOMAIN keys : keys[i].token = t
          BY <3>1, <3>2 DEF KeysOwed
        <4> QED BY <2>2, <2>4, <3>1, <4>1
      <3>3. ASSUME NEW t, t = c.admin PROVE Recording(t)' \/ keyByLabel(keys, AdminLabel) = t
        <4>1. Recording(t) \/ keyByLabel(keys, AdminLabel) = t
          BY <3>1, <3>3 DEF KeysOwed
        <4>2. Owned(t, AdminLabel, made)
          <5>1. Owned(TokenIn(c, AdminLabel), AdminLabel, made)
            BY <3>1, SourcesOwned, LabelsApart
          <5> QED BY <3>3, <5>1 DEF TokenIn
        <4>3. t = old.tok => p = AdminLabel
          BY <2>3, <4>2 DEF Owned
        <4> QED BY <2>2, <2>4, <3>1, <4>1, <4>3
      <3> QED BY <3>2, <3>3
    <2> QED BY <2>5, OwedBy
  <1> QED BY <1>4, <1>5

-----------------------------------------------------------------------------
(* The other steps.                                                        *)

LEMMA PassesKeeps ==
    ASSUME InTurn, OneWriter("keys"), Ownership, KeysOwed, NEW h \in Handler, NEW r,
           Passes(h, r), ~ At(h, "fill"), r.at # "fill"
    PROVE  Grown(made, made') /\ OneWriter("keys")' /\ Ownership' /\ KeysOwed'
  <1>1. /\ Becomes(h, r) /\ UNCHANGED file /\ OwnToken(r, made')
        /\ Records(req[h]) => Records(r) /\ r.tok = req[h].tok /\ r.edit = req[h].edit
    BY DEF Passes
  <1>2. /\ req'[h] = r /\ \A k \in Handler \ {h} : req'[k] = req[k]
        /\ \A k \in Handler : \A f : Filling(k, f)' <=> Filling(k, f)
        /\ \A f : Torn(f)' <=> Torn(f)
        /\ Sources' = Sources
    BY <1>1, NothingFilled
  <1>3. made' \in Seq(Party \cup {Nil}) /\ Grown(made, made')
    <2>1. CASE made' = made
      BY <2>1 DEF Ownership, Grown
    <2>2. CASE \E x \in Party : made' = Append(made, x)
      BY <2>2, MadeGrows DEF Ownership
    <2> QED BY <2>1, <2>2 DEF Passes
  <1>4. Ownership'
    <2> DEFINE n == made'
    <2> HIDE DEF n
    <2>1. Grown(made, n) /\ OwnToken(r, n)
      BY <1>1, <1>3 DEF n
    <2>2. OwnConfig(file.config, n) /\ OwnKeys(file.keys, n) /\ \A k \in Handler : OwnToken(req[k], n)
      BY <2>1, OwnGrows DEF Ownership
    <2>3. \A k \in Handler : OwnToken(req'[k], n)
      BY <1>2, <2>1, <2>2
    <2> QED BY <1>1, <1>3, <2>2, <2>3 DEF Ownership, n
  <1>5. OneWriter("keys")'
    BY <1>1, <1>2 DEF OneWriter
  <1>6. KeyTexts' = KeyTexts
    <2>1. \A k \in Handler : Filling(k, "keys") => req'[k] = req[k]
      BY <1>2 DEF Filling
    <2> DEFINE F == {k \in Handler : Filling(k, "keys")}
    <2>2. F' = F
      BY <1>2
    <2>3. {req[k].next.keys : k \in F}' = {req[k].next.keys : k \in F}
      BY <2>1, <2>2
    <2> QED BY <1>1, <1>2, <2>3 DEF KeyTexts
  <1>7. \A t : Recording(t) => Recording(t)'
    BY <1>1, <1>2, RecordingStays
  <1>8. KeysOwed'
    BY <1>2, <1>6, <1>7 DEF KeysOwed
  <1> QED BY <1>3, <1>4, <1>5, <1>8

LEMMA StepPasses ==
    ASSUME InTurn, Ownership, Installed, Next, ~ Excused({"failed", "exit"})'
    PROVE  \/ \E h \in Handler : \E r : Passes(h, r) /\ ~ At(h, "fill") /\ r.at # "fill"
           \/ \E h \in Handler : Truncate(h) \/ Fill(h)
           \/ UNCHANGED <<file, req, made>>
           \/ /\ \A h \in Handler : At(h, "idle")
              /\ req' = [h \in Handler |-> Idle] /\ UNCHANGED <<file, made>>
  <1>1. ASSUME NEW h \in Handler, NEW r, Passes(h, r), NEW q, Quiet(h, q)
        PROVE  Passes(h, r) /\ ~ At(h, "fill") /\ r.at # "fill"
    <2>1. DOMAIN req = Handler
      BY DEF InTurn
    <2>2. r = q
      BY <1>1, <2>1 DEF Passes, Quiet, Becomes
    <2> QED BY <1>1, <2>2 DEF Quiet
  <1>2. ASSUME NEW h \in Handler, EditStep(h)
        PROVE  (\E r : Passes(h, r) /\ ~ At(h, "fill") /\ r.at # "fill") \/ Truncate(h) \/ Fill(h)
    <2>1. ~ WriteFails(h)
      BY DEF WriteFails, Excused
    <2>2. CASE MakeEdit(h)
      BY <1>1, <2>2, MakeEditPasses, MakeEditQuiet
    <2>3. CASE OpenOps(h) \/ RefuseEdit(h) \/ EditDone(h) \/ KeyRecorded(h)
      BY <1>1, <2>3, EditPasses, EditQuiet
    <2>4. CASE LabelKey(h)
      BY <1>1, <2>4, LabelKeyPasses, EditQuiet
    <2>5. CASE ReadKeys(h)
      BY <1>1, <2>5, ReadKeysPasses, ReadKeysQuiet
    <2> QED BY <1>2, <2>1, <2>2, <2>3, <2>4, <2>5 DEF EditStep
  <1>3. ASSUME NEW h \in Handler, OpenConfig(h) \/ ReceiveOrder(h) \/ UseAdminToken(h)
        PROVE  \E r : Passes(h, r) /\ ~ At(h, "fill") /\ r.at # "fill"
    BY <1>1, <1>3, ReceivePasses, ReceiveQuiet DEF Installed
  <1>4. ASSUME NEW h \in Handler, PublishStep(h)
        PROVE  \E r : Passes(h, r) /\ ~ At(h, "fill") /\ r.at # "fill"
    BY <1>1, <1>4, PublishPasses, PublishQuiet
  <1>5. ASSUME NEW i, HelperStep(i) PROVE UNCHANGED <<file, req, made>>
    BY <1>5 DEF HelperStep, ReadSource, TruncateInstalled, FillInstalled, FilesCopied,
                ControlService, HelperFails, HelperAt, editVars
  <1>6. CASE Exit
    BY <1>6 DEF Exit, Excused
  <1> QED BY <1>2, <1>3, <1>4, <1>5, <1>6 DEF Next

-----------------------------------------------------------------------------
(* What is installed.                                                      *)

\* A helper that has a config of the source to write, or none.
HelperOwn(u, m) == DOMAIN u = DOMAIN Gone /\ (u.name = "config" => OwnConfig(u.text, m))

LEMMA GoneOwn ==
    ASSUME NEW m, NEW u, DOMAIN u = DOMAIN Gone, u.name = "config", u.text = Nil
    PROVE  HelperOwn(u, m)
  BY DEF HelperOwn, OwnConfig

LEMMA GoneIs == Gone.name = "config" /\ Gone.text = Nil
  BY DEF Gone

\* The helpers after one of them has changed, or all of them.
LEMMA HelpersOwn ==
    ASSUME Installed, NEW m, Grown(made, m), NEW new, new = [i \in DOMAIN helper |-> new[i]],
           \A i \in DOMAIN helper : new[i] = helper[i] \/ HelperOwn(new[i], m)
    PROVE  /\ new \in Seq({new[i] : i \in DOMAIN new})
           /\ \A i \in DOMAIN new : HelperOwn(new[i], m)
  <1>1. /\ helper \in Seq({helper[i] : i \in DOMAIN helper})
        /\ \A i \in DOMAIN helper : HelperOwn(helper[i], made)
    BY DEF Installed, HelperOwn
  <1>2. DOMAIN new = DOMAIN helper
    OBVIOUS
  <1>3. \A i \in DOMAIN new : HelperOwn(new[i], m)
    BY <1>1, <1>2, OwnGrows DEF HelperOwn
  <1> DEFINE S == {helper[i] : i \in DOMAIN helper}
             T == {new[i] : i \in DOMAIN new}
  <1>4. \A i \in DOMAIN new : new[i] \in T
    OBVIOUS
  <1>5. helper \in Seq(S)
    BY <1>1
  <1> HIDE DEF S, T
  <1>6. Len(helper) \in Nat /\ DOMAIN helper = 1..Len(helper)
    BY <1>5, LenProperties
  <1>7. new \in [1..Len(helper) -> T]
    BY <1>2, <1>4, <1>6
  <1>8. new \in Seq(T)
    BY <1>6, <1>7, SeqDef
  <1> QED BY <1>3, <1>8 DEF T

LEMMA StartOwn ==
    ASSUME Installed, NEW u, HelperOwn(u, made)
    PROVE  LET new == Append(helper, u)
           IN  /\ new \in Seq({new[i] : i \in DOMAIN new})
               /\ \A i \in DOMAIN new : HelperOwn(new[i], made)
  <1> DEFINE new == Append(helper, u)
             S == {helper[i] : i \in DOMAIN helper} \cup {u}
             T == {new[i] : i \in DOMAIN new}
  <1>1. /\ \A i \in DOMAIN helper : HelperOwn(helper[i], made) /\ helper[i] \in S
        /\ helper \in Seq({helper[i] : i \in DOMAIN helper}) /\ u \in S
    BY DEF Installed, HelperOwn
  <1>2. helper \in Seq(S)
    BY <1>1, SeqIn
  <1> HIDE DEF S
  <1>3. /\ new \in Seq(S) /\ Len(new) = Len(helper) + 1 /\ new[Len(helper) + 1] = u
        /\ \A i \in 1..Len(helper) : new[i] = helper[i]
    BY <1>1, <1>2, AppendProperties
  <1>4. \A i \in DOMAIN new : new[i] \in T
    OBVIOUS
  <1> HIDE DEF new, T
  <1>5. DOMAIN new = 1..(Len(helper) + 1) /\ DOMAIN helper = 1..Len(helper) /\ Len(helper) \in Nat
    BY <1>2, <1>3, LenProperties
  <1>6. \A i \in DOMAIN new : HelperOwn(new[i], made)
    BY <1>1, <1>3, <1>5
  <1>7. new \in Seq(T)
    BY <1>3, <1>4, SeqIn
  <1> QED BY <1>6, <1>7 DEF new, T

LEMMA HelperInstalled ==
    ASSUME Ownership, Installed, NEW i \in DOMAIN helper, HelperStep(i)
    PROVE  Installed'
  <1>1. made' = made /\ HelperOwn(helper[i], made) /\ DOMAIN inst = Copied /\ OwnConfig(inst.config, made)
    BY DEF HelperStep, ReadSource, TruncateInstalled, FillInstalled, FilesCopied, ControlService,
           HelperFails, HelperAt, editVars, Installed, HelperOwn
  <1>2. ASSUME NEW u, helper' = [helper EXCEPT ![i] = u], HelperOwn(u, made),
               DOMAIN inst' = Copied, OwnConfig(inst'.config, made)
        PROVE  Installed'
    <2> DEFINE new == helper'
    <2>1. /\ new = [j \in DOMAIN helper |-> new[j]]
          /\ \A j \in DOMAIN helper : new[j] = helper[j] \/ HelperOwn(new[j], made)
      BY <1>2
    <2>2. Grown(made, made)
      BY DEF Grown
    <2> HIDE DEF new
    <2>3. new \in Seq({new[j] : j \in DOMAIN new}) /\ \A j \in DOMAIN new : HelperOwn(new[j], made)
      BY <2>1, <2>2, HelpersOwn
    <2> QED BY <1>1, <1>2, <2>3 DEF Installed, HelperOwn, new
  <1>3. ASSUME NEW ok, Finish(i, ok), inst' = inst PROVE Installed'
    <2> DEFINE done == [Gone EXCEPT !.at = "done", !.ok = ok]
    <2>1. helper' = [helper EXCEPT ![i] = done] \/ helper' = [helper EXCEPT ![i] = Gone]
      BY <1>3 DEF Finish
    <2>2. DOMAIN done = DOMAIN Gone /\ done.name = Gone.name /\ done.text = Gone.text
      BY DEF Gone
    <2> HIDE DEF done
    <2>3. HelperOwn(done, made) /\ HelperOwn(Gone, made)
      BY <2>2, GoneIs, GoneOwn
    <2> QED BY <1>1, <1>2, <1>3, <2>1, <2>3
  <1>4. CASE ReadSource(i)
    <2>1. PICK f \in helper[i].todo :
            helper' = [helper EXCEPT ![i].at = "truncate", ![i].todo = @ \ {f},
                                     ![i].name = f, ![i].text = file[f]]
      BY <1>4 DEF ReadSource
    <2> DEFINE u == [helper[i] EXCEPT !.at = "truncate", !.todo = @ \ {f}, !.name = f, !.text = file[f]]
    <2>2. helper' = [helper EXCEPT ![i] = u]
      BY <2>1
    <2>3. DOMAIN u = DOMAIN Gone /\ u.name = f /\ u.text = file[f]
      BY <1>1 DEF HelperOwn, Gone
    <2> HIDE DEF u
    <2>4. HelperOwn(u, made)
      BY <2>3 DEF HelperOwn, Ownership
    <2>5. inst' = inst
      BY <1>4 DEF ReadSource
    <2> QED BY <1>1, <1>2, <2>2, <2>4, <2>5
  <1>5. CASE TruncateInstalled(i)
    <2> DEFINE u == [helper[i] EXCEPT !.at = "fill"]
    <2>1. helper' = [helper EXCEPT ![i] = u] /\ inst' = [inst EXCEPT ![helper[i].name] = Empty[helper[i].name]]
      BY <1>5 DEF TruncateInstalled
    <2>2. DOMAIN u = DOMAIN Gone /\ u.name = helper[i].name /\ u.text = helper[i].text
      BY <1>1 DEF HelperOwn, Gone
    <2> HIDE DEF u
    <2>3. HelperOwn(u, made)
      BY <1>1, <2>2 DEF HelperOwn
    <2>4. DOMAIN inst' = Copied /\ (inst'.config = Nil \/ inst'.config = inst.config)
      BY <1>1, <2>1 DEF Copied, Empty
    <2>5. OwnConfig(inst'.config, made)
      BY <1>1, <2>4 DEF OwnConfig
    <2> QED BY <1>2, <2>1, <2>3, <2>4, <2>5
  <1>6. CASE FillInstalled(i)
    <2> DEFINE u == [helper[i] EXCEPT !.at = "copy", !.text = Nil, !.name = "config"]
    <2>1. helper' = [helper EXCEPT ![i] = u] /\ inst' = [inst EXCEPT ![helper[i].name] = helper[i].text]
      BY <1>6 DEF FillInstalled
    <2>2. DOMAIN u = DOMAIN Gone /\ u.name = "config" /\ u.text = Nil
      BY <1>1 DEF HelperOwn, Gone
    <2> HIDE DEF u
    <2>3. HelperOwn(u, made)
      BY <2>2, GoneOwn
    <2>4. /\ DOMAIN inst' = Copied
          /\ inst'.config = inst.config \/ (helper[i].name = "config" /\ inst'.config = helper[i].text)
      BY <1>1, <2>1 DEF Copied
    <2>5. OwnConfig(inst'.config, made)
      BY <1>1, <2>4 DEF HelperOwn
    <2> QED BY <1>2, <2>1, <2>3, <2>4, <2>5
  <1>7. CASE FilesCopied(i)
    <2> DEFINE u == [helper[i] EXCEPT !.at = "service"]
    <2>1. inst' = inst /\ (Finish(i, TRUE) \/ helper' = [helper EXCEPT ![i] = u])
      BY <1>7 DEF FilesCopied
    <2>2. DOMAIN u = DOMAIN Gone /\ u.name = helper[i].name /\ u.text = helper[i].text
      BY <1>1 DEF HelperOwn, Gone
    <2> HIDE DEF u
    <2>3. HelperOwn(u, made)
      BY <1>1, <2>2 DEF HelperOwn
    <2> QED BY <1>1, <1>2, <1>3, <2>1, <2>3
  <1>8. CASE ControlService(i)
    <2>1. inst' = inst /\ \E ok : Finish(i, ok)
      BY <1>8 DEF ControlService
    <2> QED BY <1>3, <2>1
  <1>9. CASE HelperFails(i)
    BY <1>3, <1>9 DEF HelperFails
  <1> QED BY <1>4, <1>5, <1>6, <1>7, <1>8, <1>9 DEF HelperStep

LEMMA InstalledStep ==
    ASSUME Ownership, Installed, Grown(made, made'), Next
    PROVE  Installed'
  <1>1. ASSUME UNCHANGED <<inst, helper>> PROVE Installed'
    <2> DEFINE m == made'
    <2> HIDE DEF m
    <2>1. \A c : OwnConfig(c, made) => OwnConfig(c, m)
      BY OwnGrows DEF m
    <2> QED BY <1>1, <2>1 DEF Installed, m
  <1>2. ASSUME NEW h \in Handler, PublishStep(h) PROVE Installed'
    <2>1. made' = made /\ inst' = inst
      BY <1>2 DEF PublishStep, StartHelper, Declined, TakeResult, WaitNoLonger, Reload, pubVars
    <2>2. CASE StartHelper(h)
      <3> DEFINE copy == [Gone EXCEPT !.at = "copy", !.todo = Copied,
                            !.svc = IF RestartAsked(req[h].edit) THEN "restart" ELSE "none"]
                 serve == [Gone EXCEPT !.at = "service",
                             !.svc = IF req[h].edit.kind = "service" THEN req[h].edit.svc ELSE "restart"]
      <3>1. helper' = Append(helper, copy) \/ helper' = Append(helper, serve)
        BY <2>2 DEF StartHelper
      <3>2. /\ DOMAIN copy = DOMAIN Gone /\ copy.name = "config" /\ copy.text = Nil
            /\ DOMAIN serve = DOMAIN Gone /\ serve.name = "config" /\ serve.text = Nil
        BY DEF Gone
      <3> HIDE DEF copy, serve
      <3>3. PICK u : helper' = Append(helper, u) /\ HelperOwn(u, made)
        BY <3>1, <3>2, GoneOwn
      <3>4. helper' \in Seq({helper'[i] : i \in DOMAIN helper'})
            /\ \A i \in DOMAIN helper' : HelperOwn(helper'[i], made)
        BY <3>3, StartOwn
      <3> QED BY <2>1, <3>4 DEF Installed, HelperOwn
    <2>3. CASE TakeResult(h)
      <3> DEFINE new == helper'
      <3>1. new = [helper EXCEPT ![req[h].helper] = Gone]
        BY <2>3 DEF TakeResult
      <3>2. new = [i \in DOMAIN helper |-> new[i]]
            /\ \A i \in DOMAIN helper : new[i] = helper[i] \/ HelperOwn(new[i], made)
        BY <3>1, GoneIs, GoneOwn
      <3>3. Grown(made, made)
        BY DEF Grown
      <3> HIDE DEF new
      <3>4. new \in Seq({new[j] : j \in DOMAIN new}) /\ \A j \in DOMAIN new : HelperOwn(new[j], made)
        BY <3>2, <3>3, HelpersOwn
      <3> QED BY <2>1, <3>4 DEF Installed, HelperOwn, new
    <2>4. CASE Declined(h) \/ WaitNoLonger(h) \/ Reload(h)
      BY <1>1, <2>4 DEF Declined, WaitNoLonger, Reload, pubVars
    <2> QED BY <1>2, <2>2, <2>3, <2>4 DEF PublishStep
  <1>3. CASE Exit
    <2> DEFINE new == helper'
    <2>1. /\ new = [i \in DOMAIN helper |-> new[i]] /\ made' = made /\ inst' = inst
          /\ \A i \in DOMAIN helper : new[i] = helper[i] \/ HelperOwn(new[i], made)
      BY <1>3, GoneIs, GoneOwn DEF Exit
    <2>2. Grown(made, made)
      BY DEF Grown
    <2> HIDE DEF new
    <2>3. new \in Seq({new[j] : j \in DOMAIN new}) /\ \A j \in DOMAIN new : HelperOwn(new[j], made)
      BY <2>1, <2>2, HelpersOwn
    <2> QED BY <2>1, <2>3 DEF Installed, HelperOwn, new
  <1> QED BY <1>1, <1>2, <1>3, HelperInstalled DEF Next, ReceiveOrder, UseAdminToken, pubVars

-----------------------------------------------------------------------------
(* The tokens of the source can be found.                                  *)

LEMMA NobodyWrites ==
    ASSUME KeysSound, \A h \in Handler : At(h, "idle"),
           req' = [h \in Handler |-> Idle], UNCHANGED <<file, made>>
    PROVE  OneWriter("keys")' /\ Ownership' /\ KeysOwed'
  <1>1. /\ \A h \in Handler : req[h].todo = << >> /\ req'[h] = Idle
        /\ \A h \in Handler : \A f : ~ Filling(h, f) /\ ~ Filling(h, f)'
        /\ Sources' = Sources
    BY AllIdle DEF KeysSound
  <1>2. ~ Torn("keys") /\ ~ Torn("keys")'
    BY <1>1 DEF Torn
  <1>3. KeyTexts' = KeyTexts
    BY <1>2 DEF KeyTexts
  <1>4. \A t : ~ Recording(t)
    BY DEF Recording, Records, At
  <1>5. OneWriter("keys")'
    BY <1>1, <1>2 DEF OneWriter
  <1>6. Ownership'
    BY <1>1, IdleOwn DEF KeysSound, Ownership
  <1>7. KeysOwed'
    BY <1>1, <1>3, <1>4 DEF KeysSound, KeysOwed
  <1> QED BY <1>5, <1>6, <1>7

LEMMA KeysStep == KeysInv /\ [Next]_vars => KeysInv'
  <1> SUFFICES ASSUME KeysInv, [Next]_vars, ~ Excused(KeysMarks)' PROVE KeysSound'
    BY DEF KeysInv
  <1>1. history \subseteq history'
    BY HistoryGrows DEF vars, editVars
  <1>2. KeysSound
    BY <1>1 DEF KeysInv, KeysSound, Excused, KeysMarks
  <1>3. CASE UNCHANGED vars
    BY <1>2, <1>3 DEF vars, editVars, pubVars, KeysSound, InTurn, OneWriter, Ownership, Installed,
                      KeysOwed, Sources, KeyTexts, Recording, Filling, Torn, At
  <1>4. CASE Next
    <2>1. /\ ~ Excused({"stale source", "failed", "exit"})' /\ ~ Excused({"failed", "exit"})'
          /\ "stale source" \notin history' /\ "stale keys" \notin history' /\ "superseded" \notin history'
      BY DEF Excused, KeysMarks
    <2>2. InTurn'
      BY <1>2, <1>4, <2>1, InTurnStep DEF KeysSound
    <2>3. Grown(made, made) /\ (UNCHANGED made => Grown(made, made'))
      BY DEF Grown
    <2>4. Grown(made, made') /\ OneWriter("keys")' /\ Ownership' /\ KeysOwed'
      <3>1. CASE \E h \in Handler : \E r : Passes(h, r) /\ ~ At(h, "fill") /\ r.at # "fill"
        BY <1>2, <3>1, PassesKeeps DEF KeysSound
      <3>2. CASE \E h \in Handler : Truncate(h) \/ Fill(h)
        <4>1. PICK h \in Handler : Truncate(h) \/ Fill(h)
          BY <3>2
        <4>2. UNCHANGED made
          BY <4>1 DEF Truncate, Fill
        <4>3. CASE Truncate(h)
          BY <1>2, <2>1, <2>3, <4>2, <4>3, TruncateOwns, TruncateKeys, TruncateKeysOwed DEF KeysSound
        <4>4. CASE Fill(h)
          BY <1>2, <2>3, <4>2, <4>4, FillOwns, FillKeys, FillKeysOwed DEF KeysSound
        <4> QED BY <4>1, <4>3, <4>4
      <3>3. CASE UNCHANGED <<file, req, made>>
        <4>1. OneWriter("keys")' /\ Ownership'
          BY <1>2, <3>3 DEF KeysSound, OneWriter, Ownership, Filling, Torn, At
        <4>2. Sources' = Sources /\ KeyTexts' = KeyTexts
          BY <3>3 DEF Sources, KeyTexts, Filling, Torn, At
        <4>3. \A t : Recording(t) => Recording(t)'
          BY <3>3 DEF Recording
        <4>4. KeysOwed'
          BY <1>2, <4>2, <4>3 DEF KeysSound, KeysOwed
        <4> QED BY <2>3, <3>3, <4>1, <4>4
      <3>4. CASE /\ \A h \in Handler : At(h, "idle")
                 /\ req' = [h \in Handler |-> Idle] /\ UNCHANGED <<file, made>>
        BY <1>2, <2>3, <3>4, NobodyWrites
      <3> QED BY <1>2, <1>4, <2>1, <3>1, <3>2, <3>3, <3>4, StepPasses DEF KeysSound
    <2>5. Installed'
      BY <1>2, <1>4, <2>4, InstalledStep DEF KeysSound
    <2> QED BY <2>2, <2>4, <2>5 DEF KeysSound
  <1> QED BY <1>3, <1>4

LEMMA InitKeys == Init => KeysInv
  <1> SUFFICES ASSUME Init PROVE KeysSound
    BY DEF KeysInv, KeysSound
  <1>1. InTurn /\ \A h \in Handler : \A f : ~ Filling(h, f)
    BY InitInTurn
  <1>2. /\ file = [config |-> FirstConfig, ops |-> FirstOps, keys |-> FirstKeys] /\ made = FirstMade
        /\ req = [h \in Handler |-> Idle] /\ helper = << >>
        /\ inst = [config |-> FirstConfig, ops |-> FirstOps]
    BY DEF Init, EditInit
  <1>3. ~ Torn("keys") /\ OneWriter("keys")
    BY <1>1 DEF Torn, OneWriter
  <1>4. OwnConfig(FirstConfig, FirstMade)
    BY EditAssumption DEF OwnConfig, Owned
  <1>5. OwnKeys(FirstKeys, FirstMade)
    <2>1. FirstKeys \in Seq([label : Names, token : DOMAIN FirstMade])
      BY KeysAssumption
    <2>2. ASSUME NEW i \in DOMAIN FirstKeys, NEW x \in Party, FirstMade[FirstKeys[i].token] = x
          PROVE  FirstKeys[i].label \in Labels(x)
      BY <2>2 DEF Labels
    <2> QED BY <2>1, <2>2 DEF OwnKeys
  <1>6. Ownership
    BY <1>2, <1>4, <1>5, IdleOwn, EditAssumption DEF Ownership
  <1>7. Installed
    <2>1. \A i \in DOMAIN helper : FALSE
      BY <1>2
    <2>2. helper \in Seq({helper[i] : i \in DOMAIN helper})
      BY <1>2, EmptySeq
    <2>3. DOMAIN inst = Copied /\ inst.config = FirstConfig
      BY <1>2 DEF Copied
    <2> QED BY <1>2, <1>4, <2>1, <2>2, <2>3 DEF Installed
  <1>8. \A c : c \in Sources => c = FirstConfig
    BY <1>1, <1>2 DEF Sources
  <1>9. KeyTexts = {FirstKeys}
    BY <1>2, <1>3 DEF KeyTexts
  <1>10. KeysOwed
    BY <1>8, <1>9, KeysAssumption, AdminAssumption DEF KeysOwed
  <1> QED BY <1>1, <1>3, <1>6, <1>7, <1>10 DEF KeysSound

\* However requests overlap, every hash of the source config has its token in
\* agent-keys.txt or one that is going to be written there, although upsertKey
\* puts back what it has read before (configedit.go, gateway.go); unless one
\* writer has overtaken another, a write failed or the application ended.
THEOREM KeysAlwaysKept == Spec => []KeysKept
  <1>1. KeysInv => KeysKept
    <2> SUFFICES ASSUME KeysSound, file.config # Nil,
                        NEW t, t \in {file.config.admin} \cup {file.config.agents[a] : a \in Agent}, t # Nil
                 PROVE  Known(t)
      BY DEF KeysInv, KeysKept, KeysSound
    <2>1. PICK x \in Party : t = TokenIn(file.config, x)
      BY EditAssumption DEF Party, TokenIn
    <2>2. file.config \in Sources
      BY DEF Sources
    <2>3. \A keys \in KeyTexts : Recording(t) \/ \E i \in DOMAIN keys : keys[i].token = t
      BY <2>1, <2>2 DEF KeysSound, KeysOwed
    <2>4. Recording(t) => Known(t)
      BY DEF Recording, Records, Known, At
    <2>5. \E keys \in KeyTexts : keys \in {file.keys} \cup {req[h].next.keys : h \in {h \in Handler : Filling(h, "keys")}}
      BY DEF KeyTexts, Torn
    <2>6. ASSUME NEW keys \in {file.keys} \cup {req[h].next.keys : h \in {h \in Handler : Filling(h, "keys")}},
                 NEW i \in DOMAIN keys, keys[i].token = t
          PROVE  Known(t)
      BY <2>6 DEF Known, Blocks
    <2> QED BY <2>3, <2>4, <2>5, <2>6
  <1> QED BY <1>1, InitKeys, KeysStep, PTL DEF Spec

\* The application has an admin token that the running gateway or the next
\* published config knows, even while a new one is being made (setAdminToken,
\* useAdminToken), with the same exceptions.
THEOREM AdminIsNeverLost == Spec => []AdminNeverLost
  <1>1. KeysInv => AdminNeverLost
    <2> SUFFICES ASSUME KeysSound, file.config # Nil, ~ Torn("keys")
                 PROVE  \/ file.config.admin = keyByLabel(file.keys, AdminLabel)
                        \/ \E h \in Handler : ~ At(h, "idle") /\ req[h].tok = file.config.admin
      BY DEF KeysInv, AdminNeverLost, KeysSound, Writing
    <2>1. file.config \in Sources /\ KeyTexts = {file.keys}
      BY DEF Sources, KeyTexts
    <2> QED BY <2>1 DEF KeysSound, KeysOwed, Recording, Records, At
  <1> QED BY <1>1, InitKeys, KeysStep, PTL DEF Spec

-----------------------------------------------------------------------------
(* A publish that is reported as done.                                     *)

\* Who does neither publish nor control a service has nothing to be on.
LEMMA NotOnTheWay ==
    ASSUME NEW r, \/ r.at \in {"idle", "ops", "edit", "write", "fill", "keys"}
                  \/ r.edit = Nil \/ r.edit.kind # "publish"
    PROVE  OnTheWay(r) /\ OnTheWay(r)'
  BY DEF OnTheWay, Publishes

\* While a handler is at work and waits for no helper, no helper works.
LEMMA HandlerMoves ==
    ASSUME PublishSound, NEW h \in Handler, NEW r, ~ At(h, "wait"),
           \A k \in Handler \ {h} : At(k, "idle"),
           Becomes(h, r), DOMAIN r = DOMAIN Idle, OnTheWay(r)',
           DOMAIN inst' = Copied, helper' = helper
    PROVE  PublishSound'
  <1>1. \A i \in DOMAIN helper : ~ Awaited(i)
    BY DEF Awaited, Waits, At
  <1>2. DOMAIN req' = Handler /\ req'[h] = r /\ \A k \in Handler \ {h} : req'[k] = req[k]
    BY DEF Becomes, PublishSound
  <1>3. ASSUME NEW k \in Handler, NEW t, t = req'[k]
        PROVE  DOMAIN t = DOMAIN Idle /\ OnTheWay(t)'
    <2>1. CASE k = h
      BY <1>2, <1>3, <2>1
    <2>2. CASE k # h
      BY <1>2, <1>3, <2>2, NotOnTheWay DEF At, PublishSound
    <2> QED BY <2>1, <2>2
  <1>4. (\A k \in Handler : DOMAIN req[k] = DOMAIN Idle /\ OnTheWay(req[k]))'
    BY <1>3
  <1>5. (\A k, j \in Handler : k = j \/ At(k, "idle") \/ At(j, "idle"))'
    BY <1>2 DEF At
  <1>6. \A i \in DOMAIN helper : helper[i].at = "gone"
    BY <1>1 DEF PublishSound
  <1> QED BY <1>2, <1>4, <1>5, <1>6 DEF PublishSound

\* While a handler waits, at most its own helper works.
LEMMA HelperMoves ==
    ASSUME PublishSound, NEW i \in DOMAIN helper, helper[i].at # "gone", NEW u, NEW h \in Handler,
           Waits(h, i), helper' = [helper EXCEPT ![i] = u], DOMAIN u = DOMAIN Gone,
           DOMAIN inst' = Copied, UNCHANGED <<file, req>>,
           Publishes(req[h]) => \A r : r = req[h] => Reached(r, u)'
    PROVE  PublishSound'
  <1>1. \A k \in Handler \ {h} : At(k, "idle")
    BY DEF PublishSound, Waits, At
  <1>2. \A j \in DOMAIN helper \ {i} : helper[j].at = "gone"
    BY <1>1 DEF PublishSound, Awaited, Waits, At
  <1>3. /\ DOMAIN helper' = DOMAIN helper /\ helper'[i] = u
        /\ \A j \in DOMAIN helper \ {i} : helper'[j] = helper[j]
    OBVIOUS
  <1>4. Awaited(i)'
    BY DEF Awaited, Waits, At
  <1>5. \A j \in DOMAIN helper' :
           DOMAIN helper'[j] = DOMAIN Gone /\ (helper'[j].at = "gone" \/ Awaited(j)')
    BY <1>2, <1>3, <1>4 DEF PublishSound
  <1>6. ASSUME NEW k \in Handler, NEW r, r = req[k] PROVE OnTheWay(r)'
    <2>1. CASE k # h
      BY <1>1, <1>6, <2>1, NotOnTheWay DEF At
    <2>2. CASE k = h
      <3>1. r.at = "wait" /\ r.helper = i
        BY <1>6, <2>2 DEF Waits, At
      <3>2. Publishes(r) => Reached(r, u)'
        BY <1>6, <2>2
      <3>3. ASSUME NEW t, t = helper'[r.helper], Publishes(r) PROVE Reached(r, t)'
        BY <3>1, <3>2, <3>3, <1>3
      <3>4. r.helper \in DOMAIN helper'
        BY <3>1, <1>3
      <3>5. Publishes(r) => Reached(r, helper[r.helper])'
        BY <3>3
      <3> QED BY <3>1, <3>4, <3>5 DEF OnTheWay
    <2> QED BY <2>1, <2>2
  <1>7. (\A k \in Handler : OnTheWay(req[k]))'
    BY <1>6
  <1>8. helper' \in Seq({helper'[j] : j \in DOMAIN helper'})
    <2> DEFINE new == helper'
               T == {new[j] : j \in DOMAIN new}
    <2>1. Len(helper) \in Nat /\ DOMAIN helper = 1..Len(helper)
      BY LenProperties DEF PublishSound
    <2>2. new = [j \in 1..Len(helper) |-> new[j]] /\ \A j \in 1..Len(helper) : new[j] \in T
      BY <2>1
    <2> HIDE DEF new, T
    <2>3. new \in [1..Len(helper) -> T]
      BY <2>2
    <2>4. new \in Seq(T)
      BY <2>1, <2>3, SeqDef
    <2> QED BY <2>4 DEF T, new
  <1> QED BY <1>5, <1>7, <1>8 DEF PublishSound, At

-----------------------------------------------------------------------------

\* Nobody else is at work when a request is received, unless it is marked, and
\* while one is at work.
LEMMA OthersIdle ==
    ASSUME PublishSound, NEW h \in Handler, ~ At(h, "idle")
    PROVE  \A k \in Handler \ {h} : At(k, "idle")
  BY DEF PublishSound

\* What a handler becomes by editing: it is never a step of a publish.
LEMMA EditMoves ==
    ASSUME PublishSound, NEW h \in Handler, EditStep(h)
    PROVE  \E r : /\ Becomes(h, r) /\ DOMAIN r = DOMAIN Idle
                  /\ ~ At(h, "wait") /\ ~ At(h, "idle")
                  /\ OnTheWay(r)'
  <1> DEFINE s == req[h]
  <1>1. DOMAIN s = DOMAIN Idle
    BY DEF PublishSound
  <1>2. /\ DOMAIN Idle = {"at", "edit", "seen", "next", "todo", "tok", "old", "label", "helper"}
        /\ Idle.at = "idle"
    BY DEF Idle
  <1>3. ASSUME NEW r, Becomes(h, r), DOMAIN r = DOMAIN Idle, ~ At(h, "wait"), ~ At(h, "idle"),
               r.at \in {"idle", "edit", "write", "fill", "keys"} \/ r.edit.kind = "admin"
        PROVE  \E q : /\ Becomes(h, q) /\ DOMAIN q = DOMAIN Idle
                      /\ ~ At(h, "wait") /\ ~ At(h, "idle")
                      /\ OnTheWay(q)'
    BY <1>3, NotOnTheWay
  <1>4. CASE RefuseEdit(h) \/ WriteFails(h) \/ EditDone(h)
    BY <1>2, <1>3, <1>4 DEF RefuseEdit, WriteFails, EditDone, Answer, At
  <1>5. CASE OpenOps(h)
    <2> DEFINE r == [s EXCEPT !.at = "edit", !.seen.ops = file.ops]
    <2>1. Becomes(h, r) /\ At(h, "ops") /\ DOMAIN r = DOMAIN Idle /\ r.at = "edit"
      BY <1>1, <1>2, <1>5 DEF OpenOps
    <2> HIDE DEF r
    <2> QED BY <1>3, <2>1 DEF At
  <1>6. CASE MakeEdit(h)
    <2> DEFINE r == Edited(s)
    <2>1. Becomes(h, r) /\ At(h, "edit") /\ DOMAIN r = DOMAIN s /\ r.at = "write"
      <3>1. "at" \in DOMAIN s
        BY <1>1, <1>2
      <3>2. DOMAIN Edited(s) = DOMAIN s /\ Edited(s).at = "write"
        BY <3>1 DEF Edited
      <3> QED BY <1>6, <3>2 DEF MakeEdit, Edited
    <2> HIDE DEF r
    <2> QED BY <1>1, <1>3, <2>1 DEF At
  <1>7. CASE Truncate(h)
    <2> DEFINE r == [s EXCEPT !.at = "fill"]
    <2>1. Becomes(h, r) /\ At(h, "write") /\ DOMAIN r = DOMAIN Idle /\ r.at = "fill"
      BY <1>1, <1>2, <1>7 DEF Truncate, Goes
    <2> HIDE DEF r
    <2> QED BY <1>3, <2>1 DEF At
  <1>8. CASE Fill(h)
    <2> DEFINE f == Head(s.todo)
               r == [s EXCEPT !.at = "write", !.todo = Tail(@), !.seen[f] = s.next[f]]
    <2>1. Becomes(h, r) /\ At(h, "fill") /\ DOMAIN r = DOMAIN Idle /\ r.at = "write"
      BY <1>1, <1>2, <1>8 DEF Fill
    <2> HIDE DEF r
    <2> QED BY <1>3, <2>1 DEF At
  <1>9. CASE LabelKey(h)
    <2>1. PICK label : Becomes(h, [s EXCEPT !.at = "keys", !.label = label]) /\ At(h, "write")
      BY <1>9 DEF LabelKey
    <2> DEFINE r == [s EXCEPT !.at = "keys", !.label = label]
    <2>2. Becomes(h, r) /\ DOMAIN r = DOMAIN Idle /\ r.at = "keys"
      BY <1>1, <1>2, <2>1
    <2> HIDE DEF r
    <2> QED BY <1>3, <2>1, <2>2 DEF At
  <1>10. CASE ReadKeys(h)
    <2>1. PICK keys : Becomes(h, [s EXCEPT !.at = "write", !.todo = <<"keys">>,
                                           !.seen.keys = file.keys, !.next.keys = keys]) /\ At(h, "keys")
      BY <1>10 DEF ReadKeys
    <2> DEFINE r == [s EXCEPT !.at = "write", !.todo = <<"keys">>,
                              !.seen.keys = file.keys, !.next.keys = keys]
    <2>2. Becomes(h, r) /\ DOMAIN r = DOMAIN Idle /\ r.at = "write"
      BY <1>1, <1>2, <2>1
    <2> HIDE DEF r
    <2> QED BY <1>3, <2>1, <2>2 DEF At
  <1>11. CASE KeyRecorded(h)
    <2>1. CASE s.edit.kind = "admin"
      <3> DEFINE r == [s EXCEPT !.at = "publish"]
      <3>1. DOMAIN r = DOMAIN Idle /\ r.edit = s.edit /\ Becomes(h, r)
        BY <1>1, <1>2, <1>11, <2>1 DEF KeyRecorded, Goes
      <3> HIDE DEF r
      <3> QED BY <1>3, <1>11, <2>1, <3>1 DEF KeyRecorded, At
    <2>2. CASE s.edit.kind # "admin"
      BY <1>2, <1>3, <1>11, <2>2 DEF KeyRecorded, Answer, At
    <2> QED BY <2>1, <2>2
  <1> QED BY <1>4, <1>5, <1>6, <1>7, <1>8, <1>9, <1>10, <1>11 DEF EditStep

LEMMA ReceiveMoves ==
    ASSUME PublishSound, NEW h \in Handler, "together" \notin history',
           (OpenConfig(h) /\ UNCHANGED pubVars) \/ ReceiveOrder(h) \/ UseAdminToken(h)
    PROVE  PublishSound'
  <1>1. /\ At(h, "idle") /\ UNCHANGED <<inst, helper>>
        /\ history' = IF \E k \in Handler : ~ At(k, "idle") THEN history \cup {"together"} ELSE history
    BY DEF OpenConfig, ReceiveOrder, UseAdminToken, Receive, pubVars
  <1>2. \A k \in Handler : At(k, "idle")
    BY <1>1
  <1>3. ASSUME NEW r, Becomes(h, r), DOMAIN r = DOMAIN Idle, OnTheWay(r)' PROVE PublishSound'
    BY <1>1, <1>2, <1>3, HandlerMoves DEF PublishSound, At
  <1>4. /\ DOMAIN Idle = {"at", "edit", "seen", "next", "todo", "tok", "old", "label", "helper"}
        /\ Idle.at = "idle" /\ Idle.label = Nil
    BY DEF Idle
  <1>5. CASE OpenConfig(h)
    <2>1. PICK e : Becomes(h, [Idle EXCEPT !.at = "ops", !.edit = e, !.seen.config = file.config])
      BY <1>5 DEF OpenConfig, Receive
    <2> DEFINE r == [Idle EXCEPT !.at = "ops", !.edit = e, !.seen.config = file.config]
    <2>2. Becomes(h, r) /\ DOMAIN r = DOMAIN Idle /\ r.at = "ops"
      BY <1>4, <2>1
    <2> HIDE DEF r
    <2> QED BY <1>3, <2>2, NotOnTheWay
  <1>6. CASE ReceiveOrder(h)
    <2>1. PICK e \in Order : e.kind \in {"publish", "service"}
                                /\ Receive(h, [Idle EXCEPT !.at = e.kind, !.edit = e])
      BY <1>6 DEF ReceiveOrder
    <2> DEFINE r == [Idle EXCEPT !.at = e.kind, !.edit = e]
    <2>2. /\ Becomes(h, r) /\ DOMAIN r = DOMAIN Idle /\ r.at = e.kind /\ r.edit = e /\ r.label = Nil
      BY <1>4, <2>1 DEF Receive
    <2> HIDE DEF r
    <2>3. OnTheWay(r)'
      BY <2>1, <2>2 DEF OnTheWay, Publishes
    <2> QED BY <1>3, <2>2, <2>3
  <1>7. CASE UseAdminToken(h)
    <2>1. PICK e : Becomes(h, IF ~ e.remember THEN Idle
                              ELSE [Idle EXCEPT !.at = "keys", !.edit = e, !.tok = inst.config.admin,
                                                !.label = AdminLabel])
      BY <1>7 DEF UseAdminToken, Receive
    <2>2. PICK r : r = [Idle EXCEPT !.at = "keys", !.edit = e, !.tok = inst.config.admin, !.label = AdminLabel]
      OBVIOUS
    <2>3. DOMAIN r = DOMAIN Idle /\ r.at = "keys" /\ (Becomes(h, r) \/ Becomes(h, Idle))
      BY <1>4, <2>1, <2>2
    <2>4. OnTheWay(r)' /\ OnTheWay(Idle)'
      BY <1>4, <2>3, NotOnTheWay
    <2> QED BY <1>3, <2>3, <2>4
  <1> QED BY <1>5, <1>6, <1>7

\* A helper that has just been started has nothing copied yet, or follows one
\* that has copied everything.
LEMMA StartMoves ==
    ASSUME PublishSound, NEW h \in Handler, StartHelper(h)
    PROVE  PublishSound'
  <1>1. /\ UNCHANGED <<file, inst, gw>> /\ ~ At(h, "idle") /\ ~ At(h, "wait")
        /\ DOMAIN req[h] = DOMAIN Idle /\ OnTheWay(req[h])
    BY DEF StartHelper, At, PublishSound
  <1>2. PICK r : /\ Becomes(h, r)
                 /\ DOMAIN r = DOMAIN Idle /\ r.at = "wait" /\ r.helper = Len(helper) + 1
                 /\ r.edit = req[h].edit /\ r.label = req[h].label
    <2> DEFINE r == [req[h] EXCEPT !.at = "wait", !.helper = Len(helper) + 1]
    <2>1. /\ Becomes(h, r)
          /\ DOMAIN r = DOMAIN Idle /\ r.at = "wait" /\ r.helper = Len(helper) + 1
          /\ r.edit = req[h].edit /\ r.label = req[h].label
      BY <1>1 DEF Idle, StartHelper
    <2> QED BY <2>1
  <1>3. \A k \in Handler \ {h} : At(k, "idle")
    BY <1>1, OthersIdle
  <1>4. \A i \in DOMAIN helper : helper[i].at = "gone"
    BY <1>1, <1>3 DEF PublishSound, Awaited, Waits, At
  <1>5. \E u : /\ helper' = Append(helper, u) /\ DOMAIN u = DOMAIN Gone
               /\ Publishes(r) => Reached(r, u)'
    <2>1. CASE At(h, "publish")
      <3>1. PICK u : /\ helper' = Append(helper, u)
                     /\ u = [Gone EXCEPT !.at = "copy", !.todo = Copied,
                               !.svc = IF RestartAsked(req[h].edit) THEN "restart" ELSE "none"]
        BY <2>1 DEF StartHelper, At
      <3>2. /\ DOMAIN u = DOMAIN Gone /\ u.at = "copy" /\ u.todo = Copied
            /\ u.svc = IF RestartAsked(req[h].edit) THEN "restart" ELSE "none"
        BY <3>1 DEF Gone
      <3>3. Publishes(r) => r.label = Nil
        BY <1>1, <1>2, <2>1 DEF OnTheWay, Publishes, At
      <3>4. Publishes(r) => Reached(r, u)'
        BY <1>2, <3>2, <3>3 DEF Reached, Restarts
      <3> QED BY <3>1, <3>2, <3>4
    <2>2. CASE At(h, "service")
      <3>1. PICK u : /\ helper' = Append(helper, u)
                     /\ u = [Gone EXCEPT !.at = "service",
                               !.svc = IF req[h].edit.kind = "service" THEN req[h].edit.svc ELSE "restart"]
        BY <2>2 DEF StartHelper, At
      <3>2. /\ DOMAIN u = DOMAIN Gone /\ u.at = "service"
            /\ u.svc = IF req[h].edit.kind = "service" THEN req[h].edit.svc ELSE "restart"
        BY <3>1 DEF Gone
      <3>3. Publishes(r) => r.label # Nil /\ InstalledIsSource
        BY <1>1, <1>2, <2>2 DEF OnTheWay, Publishes, At
      <3>4. Publishes(r) => Reached(r, u)'
        BY <1>1, <1>2, <3>2, <3>3 DEF Reached, Restarts, Publishes, InstalledIsSource
      <3> QED BY <3>1, <3>2, <3>4
    <2> QED BY <2>1, <2>2 DEF StartHelper
  <1>6. PICK u : helper' = Append(helper, u) /\ DOMAIN u = DOMAIN Gone /\ (Publishes(r) => Reached(r, u)')
    BY <1>5
  <1> DEFINE new == helper'
             n == Len(helper) + 1
             S == {helper[i] : i \in DOMAIN helper} \cup {u}
             T == {new[i] : i \in DOMAIN new}
  <1>7. helper \in Seq(S) /\ u \in S
    <2>1. /\ \A i \in DOMAIN helper : helper[i] \in S
          /\ helper \in Seq({helper[i] : i \in DOMAIN helper}) /\ u \in S
      BY DEF PublishSound
    <2> HIDE DEF S
    <2> QED BY <2>1, SeqIn
  <1> HIDE DEF S
  <1>8. /\ new \in Seq(S) /\ Len(new) = n /\ new[n] = u /\ \A i \in 1..Len(helper) : new[i] = helper[i]
    BY <1>6, <1>7, AppendProperties
  <1>9. \A i \in DOMAIN new : new[i] \in T
    OBVIOUS
  <1> HIDE DEF new, T
  <1>10. DOMAIN new = 1..n /\ DOMAIN helper = 1..Len(helper) /\ Len(helper) \in Nat
    BY <1>7, <1>8, LenProperties DEF n
  <1>11. new \in Seq(T)
    BY <1>8, <1>9, SeqIn
  <1>12. req'[h] = r /\ \A k \in Handler \ {h} : req'[k] = req[k]
    BY <1>2 DEF Becomes, PublishSound
  <1>13. \A i : i = n => Awaited(i)'
    BY <1>2, <1>12 DEF Awaited, Waits, At, n
  <1>14. \A i \in DOMAIN new : DOMAIN new[i] = DOMAIN Gone /\ (new[i].at = "gone" \/ i = n)
    BY <1>4, <1>6, <1>8, <1>10 DEF PublishSound
  <1>15. ASSUME NEW k \in Handler, NEW t, t = req'[k]
         PROVE  DOMAIN t = DOMAIN Idle /\ OnTheWay(t)'
    <2>1. CASE k # h
      BY <1>3, <1>12, <1>15, <2>1, NotOnTheWay DEF At, PublishSound
    <2>2. CASE k = h
      <3>1. t = r
        BY <1>12, <1>15, <2>2
      <3>2. r.helper \in DOMAIN helper' /\ (Publishes(r) => \A v : v = helper'[r.helper] => Reached(r, v)')
        BY <1>2, <1>6, <1>8, <1>10 DEF new, n
      <3>3. Publishes(r) => Reached(r, helper[r.helper])'
        BY <3>2, Zenon
      <3>4. OnTheWay(r)'
        BY <1>2, <3>2, <3>3 DEF OnTheWay
      <3> QED BY <1>2, <3>1, <3>4
    <2> QED BY <2>1, <2>2
  <1>16. (\A k \in Handler : DOMAIN req[k] = DOMAIN Idle /\ OnTheWay(req[k]))'
    BY <1>15
  <1>17. (\A k, j \in Handler : k = j \/ At(k, "idle") \/ At(j, "idle"))'
    BY <1>3, <1>12 DEF At
  <1>18. DOMAIN inst' = Copied /\ DOMAIN req' = Handler
    BY <1>1, <1>2 DEF PublishSound, Becomes
  <1>19. new \in Seq({new[i] : i \in DOMAIN new})
    BY <1>11 DEF T
  <1>20. \A i \in DOMAIN helper' : DOMAIN helper'[i] = DOMAIN Gone /\ (helper'[i].at = "gone" \/ Awaited(i)')
    BY <1>13, <1>14 DEF new
  <1> QED BY <1>16, <1>17, <1>18, <1>19, <1>20 DEF PublishSound, new

\* The other steps of a handler that publishes.
LEMMA PublishMoves ==
    ASSUME PublishSound, NEW h \in Handler, PublishStep(h), ~ Excused(PublishMarks)'
    PROVE  PublishSound'
  <1> DEFINE s == req[h]
  <1>1. /\ ~ At(h, "idle") /\ UNCHANGED <<file, inst>> /\ DOMAIN s = DOMAIN Idle /\ OnTheWay(s)
    BY DEF PublishStep, StartHelper, Declined, TakeResult, WaitNoLonger, Reload, At, PublishSound, pubVars
  <1>2. \A k \in Handler \ {h} : At(k, "idle")
    BY <1>1, OthersIdle
  <1>3. /\ DOMAIN Idle = {"at", "edit", "seen", "next", "todo", "tok", "old", "label", "helper"}
        /\ Idle.at = "idle"
    BY DEF Idle
  <1>4. ~ WaitNoLonger(h)
    BY DEF WaitNoLonger, Excused, PublishMarks
  <1>5. CASE Declined(h)
    BY <1>1, <1>2, <1>3, <1>5, NotOnTheWay, HandlerMoves
       DEF Declined, Refused, Answer, pubVars, At, PublishSound
  <1>6. CASE Reload(h)
    <2> DEFINE t == [s EXCEPT !.at = "service", !.label = "restart"]
    <2>0. DOMAIN t = DOMAIN Idle /\ t.at = "service" /\ t.label = "restart" /\ t.edit = s.edit
      BY <1>1, <1>3
    <2>1. At(h, "reload") /\ helper' = helper /\ (Answer(h) \/ Becomes(h, t))
      BY <1>6 DEF Reload
    <2> HIDE DEF t
    <2>2. PICK r : r = t
      OBVIOUS
    <2>3. OnTheWay(r)'
      BY <1>1, <2>0, <2>1, <2>2, OrderAssumption DEF OnTheWay, Publishes, InstalledIsSource, At
    <2>4. CASE Answer(h)
      BY <1>1, <1>2, <1>3, <2>1, <2>4, NotOnTheWay, HandlerMoves DEF Answer, At, PublishSound
    <2>5. CASE Becomes(h, t)
      BY <1>1, <1>2, <2>0, <2>1, <2>2, <2>3, <2>5, HandlerMoves DEF At, PublishSound
    <2> QED BY <2>1, <2>4, <2>5
  <1>7. CASE TakeResult(h)
    <2> DEFINE u == helper[s.helper]
               new == helper'
               t == [s EXCEPT !.at = "reload", !.helper = 0]
               T == {new[j] : j \in DOMAIN new}
    <2>0. DOMAIN t = DOMAIN Idle /\ t.at = "reload" /\ t.edit = s.edit
      BY <1>1, <1>3
    <2>1. /\ s.at = "wait" /\ u.at = "done" /\ new = [helper EXCEPT ![s.helper] = Gone]
          /\ u.ok \/ ~ elevated
          /\ Answer(h) \/ (Becomes(h, t) /\ u.ok)
      BY <1>7 DEF TakeResult, At, Excused, PublishMarks
    <2> HIDE DEF t
    <2>2. PICK r : r = t
      OBVIOUS
    <2>3. u.ok => OnTheWay(r)'
      BY <1>1, <2>0, <2>1, <2>2 DEF OnTheWay, Publishes, Reached, InstalledIsSource
    <2>4. PICK q : Becomes(h, q) /\ DOMAIN q = DOMAIN Idle /\ OnTheWay(q)'
      <3>1. CASE Answer(h)
        BY <1>3, <3>1, NotOnTheWay DEF Answer
      <3>2. CASE Becomes(h, t) /\ u.ok
        BY <2>0, <2>2, <2>3, <3>2
      <3> QED BY <2>1, <3>1, <3>2
    <2>5. req'[h] = q /\ DOMAIN req' = Handler /\ \A k \in Handler \ {h} : req'[k] = req[k]
      BY <2>4 DEF Becomes, PublishSound
    <2>6. ASSUME NEW k \in Handler, NEW c, c = req'[k]
          PROVE  DOMAIN c = DOMAIN Idle /\ OnTheWay(c)'
      <3>1. CASE k = h
        BY <2>4, <2>5, <2>6, <3>1
      <3>2. CASE k # h
        BY <1>2, <2>5, <2>6, <3>2, NotOnTheWay DEF At, PublishSound
      <3> QED BY <3>1, <3>2
    <2>7. (\A k \in Handler : DOMAIN req[k] = DOMAIN Idle /\ OnTheWay(req[k]))'
      BY <2>6
    <2>8. \A i \in DOMAIN helper : i = s.helper \/ helper[i].at = "gone"
      BY <1>2 DEF PublishSound, Awaited, Waits, At
    <2>9. /\ DOMAIN new = DOMAIN helper
          /\ \A i \in DOMAIN new : DOMAIN new[i] = DOMAIN Gone /\ new[i].at = "gone"
      BY <2>1, <2>8 DEF PublishSound, Gone
    <2>10. new \in Seq(T)
      <3>1. Len(helper) \in Nat /\ DOMAIN helper = 1..Len(helper)
        BY LenProperties DEF PublishSound
      <3>2. new = [j \in 1..Len(helper) |-> new[j]] /\ \A j \in 1..Len(helper) : new[j] \in T
        BY <2>1, <3>1
      <3> HIDE DEF new, T
      <3>3. new \in [1..Len(helper) -> T]
        BY <3>2
      <3> QED BY <3>1, <3>3, SeqDef
    <2>11. (\A k, j \in Handler : k = j \/ At(k, "idle") \/ At(j, "idle"))'
      BY <1>2, <2>5 DEF At
    <2>12. DOMAIN inst' = Copied
      BY <1>1 DEF PublishSound
    <2> QED BY <2>5, <2>7, <2>9, <2>10, <2>11, <2>12 DEF PublishSound
  <1> QED BY <1>4, <1>5, <1>6, <1>7, StartMoves DEF PublishStep

\* Every step of a helper brings the publish on, or ends the helper.
LEMMA HelperStepMoves ==
    ASSUME PublishSound, NEW i \in DOMAIN helper, HelperStep(i)
    PROVE  PublishSound'
  <1> DEFINE s == helper[i]
  <1>1. /\ UNCHANGED <<file, req>> /\ DOMAIN s = DOMAIN Gone
        /\ s.at \in {"copy", "truncate", "fill", "service"}
    BY DEF HelperStep, ReadSource, TruncateInstalled, FillInstalled, FilesCopied,
           ControlService, HelperFails, HelperAt, editVars, PublishSound
  <1>2. PICK h \in Handler : Waits(h, i)
    BY <1>1 DEF PublishSound, Awaited
  <1>3. Publishes(req[h]) => Reached(req[h], s)
    BY <1>2 DEF PublishSound, OnTheWay, Waits, At
  <1>4. DOMAIN Gone = {"at", "todo", "svc", "name", "text", "ok"}
    BY DEF Gone
  <1>5. ASSUME NEW u, helper' = [helper EXCEPT ![i] = u], DOMAIN u = DOMAIN Gone, DOMAIN inst' = Copied,
               NEW r, r = req[h], Publishes(r) => Reached(r, u)'
        PROVE  PublishSound'
    BY <1>1, <1>2, <1>5, HelperMoves
  <1>6. PICK r : r = req[h]
    OBVIOUS
  <1>7. ASSUME NEW ok, Finish(i, ok), inst' = inst,
               Publishes(r) /\ ok => InstalledIsSource /\ (Restarts(r) => gw' # Down /\ gw' = inst)
        PROVE  PublishSound'
    <2>1. PICK u : u = [Gone EXCEPT !.at = "done", !.ok = ok] /\ helper' = [helper EXCEPT ![i] = u]
      BY <1>2, <1>7 DEF Finish
    <2>2. DOMAIN u = DOMAIN Gone /\ u.at = "done" /\ u.ok = ok
      BY <1>4, <2>1
    <2>3. InstalledIsSource => InstalledIsSource'
      BY <1>1, <1>7 DEF InstalledIsSource
    <2>4. Publishes(r) => Reached(r, u)'
      BY <1>7, <2>2, <2>3 DEF Reached
    <2>5. DOMAIN inst' = Copied
      BY <1>7 DEF PublishSound
    <2> QED BY <1>5, <1>6, <2>1, <2>2, <2>4, <2>5
  <1>8. CASE ReadSource(i)
    <2>1. PICK f \in s.todo :
            helper' = [helper EXCEPT ![i].at = "truncate", ![i].todo = @ \ {f},
                                     ![i].name = f, ![i].text = file[f]]
      BY <1>8 DEF ReadSource
    <2>2. PICK u : u = [s EXCEPT !.at = "truncate", !.todo = @ \ {f}, !.name = f, !.text = file[f]]
      OBVIOUS
    <2>3. helper' = [helper EXCEPT ![i] = u]
      BY <2>1, <2>2
    <2>4. /\ DOMAIN u = DOMAIN Gone /\ u.at = "truncate" /\ u.todo = s.todo \ {f}
          /\ u.name = f /\ u.text = file[f] /\ u.svc = s.svc
      BY <1>1, <1>4, <2>2
    <2>5. s.at = "copy" /\ inst' = inst
      BY <1>8 DEF ReadSource, HelperAt
    <2>6. Publishes(r) => Reached(r, u)'
      BY <1>1, <1>3, <1>6, <2>4, <2>5 DEF Reached
    <2> QED BY <1>5, <1>6, <2>3, <2>4, <2>5, <2>6 DEF PublishSound
  <1>9. CASE TruncateInstalled(i)
    <2>1. PICK u : u = [s EXCEPT !.at = "fill"] /\ helper' = [helper EXCEPT ![i] = u]
      BY <1>9 DEF TruncateInstalled
    <2>2. /\ DOMAIN u = DOMAIN Gone /\ u.at = "fill" /\ u.todo = s.todo
          /\ u.name = s.name /\ u.text = s.text /\ u.svc = s.svc
      BY <1>1, <1>4, <2>1
    <2>3. /\ s.at = "truncate" /\ DOMAIN inst' = Copied
          /\ \A f \in Copied \ {s.name} : inst'[f] = inst[f]
      BY <1>9 DEF TruncateInstalled, HelperAt, PublishSound
    <2>4. Publishes(r) => Reached(r, u)'
      BY <1>1, <1>3, <1>6, <2>2, <2>3 DEF Reached
    <2> QED BY <1>5, <1>6, <2>1, <2>2, <2>3, <2>4
  <1>10. CASE FillInstalled(i)
    <2>1. PICK u : /\ u = [s EXCEPT !.at = "copy", !.text = Nil, !.name = "config"]
                   /\ helper' = [helper EXCEPT ![i] = u]
      BY <1>10 DEF FillInstalled
    <2>2. DOMAIN u = DOMAIN Gone /\ u.at = "copy" /\ u.todo = s.todo /\ u.svc = s.svc
      BY <1>1, <1>4, <2>1
    <2>3. /\ s.at = "fill" /\ DOMAIN inst' = Copied
          /\ \A f \in Copied \ {s.name} : inst'[f] = inst[f]
          /\ s.name \in Copied => inst'[s.name] = s.text
      BY <1>10 DEF FillInstalled, HelperAt, PublishSound
    <2>4. Publishes(r) => Reached(r, u)'
      BY <1>1, <1>3, <1>6, <2>2, <2>3 DEF Reached
    <2> QED BY <1>5, <1>6, <2>1, <2>2, <2>3, <2>4
  <1>11. CASE FilesCopied(i)
    <2>1. s.at = "copy" /\ s.todo = {} /\ UNCHANGED <<inst, gw>>
      BY <1>11 DEF FilesCopied, HelperAt
    <2>2. Publishes(r) => InstalledIsSource
      BY <1>3, <1>6, <2>1 DEF Reached, InstalledIsSource
    <2>3. CASE s.svc = "none"
      <3>1. Publishes(r) => ~ Restarts(r)
        BY <1>3, <1>6, <2>1, <2>3 DEF Reached
      <3>2. Finish(i, TRUE)
        BY <1>11, <2>3 DEF FilesCopied
      <3> QED BY <1>7, <2>1, <2>2, <3>1, <3>2
    <2>4. CASE s.svc # "none"
      <3>1. PICK u : u = [s EXCEPT !.at = "service"] /\ helper' = [helper EXCEPT ![i] = u]
        BY <1>11, <2>4 DEF FilesCopied
      <3>2. DOMAIN u = DOMAIN Gone /\ u.at = "service" /\ u.svc = s.svc
        BY <1>1, <1>4, <3>1
      <3>3. Publishes(r) => Reached(r, u)'
        BY <1>1, <1>3, <1>6, <2>1, <2>2, <3>2 DEF Reached, InstalledIsSource
      <3> QED BY <1>5, <1>6, <2>1, <3>1, <3>2, <3>3 DEF PublishSound
    <2> QED BY <2>3, <2>4
  <1>12. CASE ControlService(i)
    <2>1. s.at = "service" /\ inst' = inst
      BY <1>12 DEF ControlService, HelperAt
    <2>2. Publishes(r) => InstalledIsSource /\ s.svc = IF Restarts(r) THEN "restart" ELSE "none"
      BY <1>3, <1>6, <2>1 DEF Reached
    <2>3. CASE s.svc = "restart"
      <3>1. gw' = Started /\ Finish(i, Started # Down)
        BY <1>12, <2>3 DEF ControlService
      <3>2. Started # Down => Started = inst
        BY DEF Started
      <3> QED BY <1>7, <2>1, <2>2, <3>1, <3>2
    <2>4. CASE s.svc # "restart"
      <3>1. PICK ok : Finish(i, ok)
        BY <1>12 DEF ControlService
      <3>2. Publishes(r) => ~ Restarts(r)
        BY <2>2, <2>4
      <3> QED BY <1>7, <2>1, <2>2, <3>1, <3>2
    <2> QED BY <2>3, <2>4
  <1>13. CASE HelperFails(i)
    BY <1>7, <1>13 DEF HelperFails
  <1> QED BY <1>8, <1>9, <1>10, <1>11, <1>12, <1>13 DEF HelperStep

\* Nobody's helper goes on after the application has ended while no handler
\* waited.
LEMMA ExitMoves ==
    ASSUME PublishSound, Exit, "late" \notin history'
    PROVE  PublishSound'
  <1> DEFINE new == helper'
             T == {new[j] : j \in DOMAIN new}
  <1>1. \A h \in Handler : ~ At(h, "wait")
    BY DEF Exit
  <1>2. \A i \in DOMAIN helper : helper[i].at = "gone"
    BY <1>1 DEF PublishSound, Awaited, Waits
  <1>3. new = [i \in DOMAIN helper |-> new[i]] /\ \A i \in DOMAIN helper : new[i] = Gone \/ new[i] = helper[i]
    BY DEF Exit
  <1>4. \A i \in DOMAIN new : DOMAIN new[i] = DOMAIN Gone /\ new[i].at = "gone"
    BY <1>2, <1>3 DEF PublishSound, Gone
  <1>5. new \in Seq(T)
    <2>1. Len(helper) \in Nat /\ DOMAIN helper = 1..Len(helper)
      BY LenProperties DEF PublishSound
    <2>2. new = [j \in 1..Len(helper) |-> new[j]] /\ \A j \in 1..Len(helper) : new[j] \in T
      BY <1>3, <2>1
    <2> HIDE DEF new, T
    <2>3. new \in [1..Len(helper) -> T]
      BY <2>2
    <2> QED BY <2>1, <2>3, SeqDef
  <1>6. req' = [h \in Handler |-> Idle] /\ inst' = inst
    BY DEF Exit
  <1>7. Idle.at = "idle"
    BY DEF Idle
  <1>8. (\A h \in Handler : DOMAIN req[h] = DOMAIN Idle /\ OnTheWay(req[h]))'
    <2>1. \A h \in Handler : \A t : t = req'[h] => DOMAIN t = DOMAIN Idle /\ OnTheWay(t)'
      BY <1>6, <1>7, NotOnTheWay
    <2> QED BY <2>1
  <1> QED BY <1>4, <1>5, <1>6, <1>7, <1>8 DEF PublishSound, At

LEMMA PublishInvStep == PublishInv /\ [Next]_vars => PublishInv'
  <1> SUFFICES ASSUME PublishInv, [Next]_vars, ~ Excused(PublishMarks)' PROVE PublishSound'
    BY DEF PublishInv
  <1>1. history \subseteq history'
    BY HistoryGrows DEF vars, editVars
  <1>2. PublishSound
    BY <1>1 DEF PublishInv, Excused
  <1>3. "together" \notin history' /\ "late" \notin history'
    BY DEF Excused, PublishMarks
  <1>4. CASE UNCHANGED vars
    BY <1>2, <1>4 DEF vars, editVars, pubVars, PublishSound, OnTheWay, Reached, InstalledIsSource,
                      Awaited, Waits, At
  <1>5. ASSUME NEW h \in Handler, EditStep(h), UNCHANGED pubVars PROVE PublishSound'
    <2>1. PICK r : /\ Becomes(h, r) /\ DOMAIN r = DOMAIN Idle
                   /\ ~ At(h, "wait") /\ ~ At(h, "idle") /\ OnTheWay(r)'
      BY <1>2, <1>5, EditMoves
    <2>2. \A k \in Handler \ {h} : At(k, "idle")
      BY <1>2, <2>1, OthersIdle
    <2>3. DOMAIN inst' = Copied /\ helper' = helper
      BY <1>2, <1>5 DEF pubVars, PublishSound
    <2> QED BY <1>2, <2>1, <2>2, <2>3, HandlerMoves
  <1>6. ASSUME NEW h \in Handler,
               (OpenConfig(h) /\ UNCHANGED pubVars) \/ ReceiveOrder(h) \/ UseAdminToken(h)
        PROVE  PublishSound'
    BY <1>2, <1>3, <1>6, ReceiveMoves
  <1>7. ASSUME NEW h \in Handler, PublishStep(h) PROVE PublishSound'
    BY <1>2, <1>7, PublishMoves
  <1>8. ASSUME NEW i \in DOMAIN helper, HelperStep(i) PROVE PublishSound'
    BY <1>2, <1>8, HelperStepMoves
  <1>9. CASE Exit
    BY <1>2, <1>3, <1>9, ExitMoves
  <1> QED BY <1>4, <1>5, <1>6, <1>7, <1>8, <1>9 DEF Next

LEMMA InitPublish == Init => PublishInv
  <1> SUFFICES ASSUME Init PROVE PublishSound
    BY DEF PublishInv
  <1>1. /\ inst = [config |-> FirstConfig, ops |-> FirstOps] /\ helper = << >>
        /\ req = [h \in Handler |-> Idle]
    BY DEF Init, EditInit
  <1>2. Idle.at = "idle"
    BY DEF Idle
  <1>3. DOMAIN inst = Copied
    BY <1>1 DEF Copied
  <1>4. \A h \in Handler : DOMAIN req[h] = DOMAIN Idle /\ OnTheWay(req[h]) /\ At(h, "idle")
    BY <1>1, <1>2, NotOnTheWay DEF At
  <1>5. helper \in Seq({helper[i] : i \in DOMAIN helper}) /\ \A i \in DOMAIN helper : FALSE
    BY <1>1, EmptySeq
  <1> QED BY <1>1, <1>3, <1>4, <1>5 DEF PublishSound

\* Under the invariant, what is answered as published is what the gateway runs.
LEMMA PublishedStep ==
    ASSUME PublishInv, NEW h \in Handler, Published(h)
    PROVE  \/ gw' # Down /\ gw'.config = file.config /\ gw'.ops = file.ops
           \/ history' \cap {"together", "late", "swallowed"} # {}
  <1> SUFFICES ASSUME ~ Excused(PublishMarks)'
               PROVE  gw' # Down /\ gw'.config = file.config /\ gw'.ops = file.ops
    BY DEF Excused, PublishMarks
  <1>1. history \subseteq history'
    BY DEF Published, Reload, TakeResult
  <1>2. PublishSound /\ Publishes(req[h]) /\ OnTheWay(req[h])
    BY <1>1 DEF PublishInv, Excused, Published, Publishes, PublishSound
  <1>3. InstalledIsSource => inst.config = file.config /\ inst.ops = file.ops
    BY DEF InstalledIsSource, Copied
  <1>4. CASE Reload(h) /\ Reloads
    <2>1. InstalledIsSource /\ gw' = inst
      BY <1>2, <1>4 DEF OnTheWay, Reload, At
    <2>2. inst # Down
      BY <1>4 DEF Reloads, Loads, Down
    <2> QED BY <1>3, <2>1, <2>2
  <1>5. CASE TakeResult(h)
    <2> DEFINE u == helper[req[h].helper]
    <2>1. gw' = gw /\ At(h, "wait") /\ u.at = "done" /\ (u.ok \/ ~ elevated)
      BY <1>5 DEF TakeResult, Excused, PublishMarks
    <2>2. u.ok
      BY <1>4, <1>5, <2>1 DEF Published, Reload, At
    <2>3. Reached(req[h], u)
      BY <1>2, <2>1 DEF OnTheWay, At
    <2>4. ~ ReloadDue(h)
      <3>1. ASSUME ReloadDue(h) PROVE FALSE
        <4> DEFINE t == [req[h] EXCEPT !.at = "reload", !.helper = 0]
        <4>1. Becomes(h, t)
          BY <1>5, <2>1, <2>2, <3>1 DEF TakeResult
        <4>2. t.at = "reload"
          BY <1>2 DEF PublishSound, Idle
        <4> HIDE DEF t
        <4>3. req'[h] = t
          BY <1>2, <4>1 DEF Becomes, PublishSound
        <4> QED BY <4>2, <4>3 DEF Published, Idle
      <3> QED BY <3>1
    <2>5. Restarts(req[h])
      BY <1>2, <2>4 DEF ReloadDue, Restarts, RestartAsked, Publishes
    <2>6. InstalledIsSource /\ gw # Down /\ gw = inst
      BY <2>1, <2>2, <2>3, <2>5 DEF Reached
    <2> QED BY <1>3, <2>1, <2>6
  <1> QED BY <1>4, <1>5 DEF Published

\* When a publish is answered as done, by the reload or by the restart after a
\* refused one (apiPublish, runElevated, publishFiles), the gateway runs what the
\* source is; unless requests have overlapped, a helper went on after the five
\* minutes or a restart, or an elevated application took its failure for success.
THEOREM PublishedIsAlwaysSource == Spec => PublishedIsSource
  <1>1. PublishInv /\ [Next]_vars =>
          [\A h \in Handler : Published(h) =>
             \/ gw' # Down /\ gw'.config = file.config /\ gw'.ops = file.ops
             \/ history' \cap {"together", "late", "swallowed"} # {}]_vars
    BY PublishedStep
  <1> QED BY <1>1, InitPublish, PublishInvStep, PTL DEF Spec, PublishedIsSource

-----------------------------------------------------------------------------
(* The types of the files, the handlers and the helpers.                   *)

LEMMA TypesAre ==
    /\ \A m : TypeOf("config", m) =
                 [agents : [Agent -> m \cup {Nil}], admin : m \cup {Nil},
                  granted : SUBSET (Role \X Op), sites : SUBSET Site, off : SUBSET Site] \cup {Nil}
    /\ \A m : TypeOf("ops", m) = SUBSET Op
    /\ \A m : TypeOf("keys", m) = Seq([label : Names, token : m])
  BY DEF TypeOf

\* What has a type keeps it when there are more tokens.
LEMMA TypesGrow ==
    ASSUME NEW m, NEW n, m \subseteq n
    PROVE  /\ \A f \in Files : TypeOf(f, m) \subseteq TypeOf(f, n)
           /\ \A x, F : F \subseteq Files /\ FilesType(x, F, m) => FilesType(x, F, n)
           /\ \A r : HandlerType(r, m) => HandlerType(r, n)
           /\ \A u : HelperType(u, m) => HelperType(u, n)
  <1>1. TypeOf("config", m) \subseteq TypeOf("config", n)
    <2>1. [Agent -> m \cup {Nil}] \subseteq [Agent -> n \cup {Nil}]
      OBVIOUS
    <2> QED BY <2>1, TypesAre
  <1>2. TypeOf("ops", m) \subseteq TypeOf("ops", n)
    BY TypesAre
  <1>3. TypeOf("keys", m) \subseteq TypeOf("keys", n)
    <2> SUFFICES ASSUME NEW keys \in Seq([label : Names, token : m])
                 PROVE  keys \in Seq([label : Names, token : n])
      BY TypesAre
    <2>1. \A i \in DOMAIN keys : keys[i] \in [label : Names, token : m]
      BY SeqIn
    <2>2. \A i \in DOMAIN keys : keys[i] \in [label : Names, token : n]
      BY <2>1
    <2> QED BY <2>2, SeqIn
  <1>4. \A f \in Files : TypeOf(f, m) \subseteq TypeOf(f, n)
    BY <1>1, <1>2, <1>3 DEF Files
  <1>5. \A x, F : F \subseteq Files /\ FilesType(x, F, m) => FilesType(x, F, n)
    BY <1>4 DEF FilesType
  <1>6. \A r : HandlerType(r, m) => HandlerType(r, n)
    <2> SUFFICES ASSUME NEW r, HandlerType(r, m) PROVE HandlerType(r, n)
      OBVIOUS
    <2>1. FilesType(r.seen, Files, n) /\ FilesType(r.next, Files, n)
      BY <1>5 DEF HandlerType
    <2> QED BY <2>1 DEF HandlerType
  <1>7. \A u : HelperType(u, m) => HelperType(u, n)
    <2> SUFFICES ASSUME NEW u, HelperType(u, m) PROVE HelperType(u, n)
      OBVIOUS
    <2>1. u.text \in TypeOf(u.name, n)
      BY <1>4 DEF HelperType, Copied, Files
    <2> QED BY <2>1 DEF HelperType
  <1> QED BY <1>4, <1>5, <1>6, <1>7

LEMMA EmptyTyped ==
    ASSUME NEW m
    PROVE  FilesType(Empty, Files, m) /\ \A f \in Files : Empty[f] \in TypeOf(f, m)
  <1>1. << >> \in Seq([label : Names, token : m])
    OBVIOUS
  <1>2. /\ DOMAIN Empty = Files /\ Empty["config"] = Nil /\ Empty["ops"] = {} /\ Empty["keys"] = << >>
    BY DEF Empty, Files
  <1>3. \A f \in Files : Empty[f] \in TypeOf(f, m)
    BY <1>1, <1>2, TypesAre DEF Files
  <1> QED BY <1>2, <1>3 DEF FilesType

LEMMA IdleTyped == ASSUME NEW m PROVE HandlerType(Idle, m)
  <1>1. /\ Idle.at = "idle" /\ Idle.seen = Empty /\ Idle.next = Empty /\ Idle.todo = << >>
        /\ Idle.tok = Nil /\ Idle.old = Nil
    BY DEF Idle
  <1> QED BY <1>1, EmptyTyped DEF HandlerType, Todos

LEMMA GoneTyped ==
    ASSUME NEW m
    PROVE  HelperType(Gone, m) /\ \A ok \in BOOLEAN : HelperType([Gone EXCEPT !.at = "done", !.ok = ok], m)
  <1>1. Nil \in TypeOf("config", m)
    BY TypesAre
  <1> QED BY <1>1 DEF HelperType, Gone, Copied

-----------------------------------------------------------------------------
(* The handlers keep their types.                                          *)

\* The handler becomes one that has its type afterwards.
Typed(h, r) ==
    /\ Becomes(h, r)
    /\ HandlerType(r, Token')
    /\ r.at = "wait" => r.helper \in DOMAIN helper'

\* A handler that goes on to publishing has the same in hand.
LEMMA MovedTyped ==
    ASSUME NEW m, NEW r, HandlerType(r, m), NEW q, DOMAIN q = DOMAIN Idle,
           q.seen = r.seen, q.next = r.next, q.tok = r.tok, q.old = r.old, q.edit = r.edit,
           q.todo = << >>, q.at \in {"publish", "service", "wait", "reload"},
           r.at \notin {"idle", "keys"}, q.at \in {"service", "reload"} => r.edit \in Order
    PROVE  HandlerType(q, m)
  BY DEF HandlerType, Recorded, Todos

LEMMA ReceiveTyped ==
    ASSUME TypeOK, NEW h \in Handler, OpenConfig(h) \/ ReceiveOrder(h) \/ UseAdminToken(h)
    PROVE  \E r : Typed(h, r)
  <1>1. UNCHANGED made /\ FilesType(file, Files, Token) /\ FilesType(inst, Copied, Token)
    BY DEF OpenConfig, ReceiveOrder, UseAdminToken, TypeOK
  <1>2. Token' = Token
    BY <1>1 DEF Token
  <1> DEFINE tokens == Token
  <1>3. ASSUME NEW r, Becomes(h, r), HandlerType(r, tokens), r.at # "wait" PROVE \E q : Typed(h, q)
    BY <1>2, <1>3 DEF Typed
  <1>0. FilesType(file, Files, tokens) /\ FilesType(inst, Copied, tokens)
    BY <1>1
  <1> HIDE DEF tokens
  <1>4. CASE OpenConfig(h)
    <2>1. PICK e \in Edit : Receive(h, [Idle EXCEPT !.at = "ops", !.edit = e, !.seen.config = file.config])
      BY <1>4 DEF OpenConfig
    <2> DEFINE r == [Idle EXCEPT !.at = "ops", !.edit = e, !.seen.config = file.config]
    <2>2. /\ DOMAIN r = DOMAIN Idle /\ r.at = "ops" /\ r.edit = e /\ r.next = Empty
          /\ r.seen = [Empty EXCEPT !.config = file.config]
          /\ r.todo = << >> /\ r.tok = Nil /\ r.old = Nil
      BY DEF Idle
    <2>3. Becomes(h, r)
      BY <2>1 DEF Receive
    <2>4. DOMAIN Empty = Files
      BY DEF Empty, Files
    <2> HIDE DEF r
    <2>5. FilesType(r.seen, Files, tokens)
      BY <1>0, <2>2, <2>4, EmptyTyped DEF FilesType, Files
    <2>6. HandlerType(r, tokens)
      BY <2>2, <2>5, EmptyTyped DEF HandlerType, Todos
    <2> QED BY <1>3, <2>2, <2>3, <2>6
  <1>5. CASE ReceiveOrder(h)
    <2>1. PICK e \in Order : e.kind \in {"publish", "service"}
                                /\ Receive(h, [Idle EXCEPT !.at = e.kind, !.edit = e])
      BY <1>5 DEF ReceiveOrder
    <2> DEFINE r == [Idle EXCEPT !.at = e.kind, !.edit = e]
    <2>2. /\ DOMAIN r = DOMAIN Idle /\ r.at = e.kind /\ r.edit = e /\ r.seen = Empty /\ r.next = Empty
          /\ r.todo = << >> /\ r.tok = Nil /\ r.old = Nil
      BY DEF Idle
    <2>3. Becomes(h, r)
      BY <2>1 DEF Receive
    <2> HIDE DEF r
    <2>4. HandlerType(r, tokens)
      BY <2>1, <2>2, EmptyTyped DEF HandlerType, Todos
    <2> QED BY <1>3, <2>1, <2>2, <2>3, <2>4
  <1>6. CASE UseAdminToken(h)
    <2>1. PICK e \in Order : e.kind = "use" /\ Receive(h, IF ~ e.remember THEN Idle
                       ELSE [Idle EXCEPT !.at = "keys", !.edit = e, !.tok = inst.config.admin,
                                         !.label = AdminLabel])
      BY <1>6 DEF UseAdminToken
    <2> DEFINE r == [Idle EXCEPT !.at = "keys", !.edit = e, !.tok = inst.config.admin, !.label = AdminLabel]
    <2>2. /\ DOMAIN r = DOMAIN Idle /\ r.at = "keys" /\ r.edit = e /\ r.seen = Empty /\ r.next = Empty
          /\ r.todo = << >> /\ r.tok = inst.config.admin /\ r.old = Nil /\ r.label = AdminLabel
      BY DEF Idle
    <2>3. Becomes(h, r) \/ Becomes(h, Idle)
      BY <2>1 DEF Receive
    <2> HIDE DEF r
    <2>4. inst.config.admin \in tokens /\ inst.config.admin # Nil
      <3>1. inst.config # Nil /\ inst.config.admin # Nil
        BY <1>6 DEF UseAdminToken
      <3>2. inst.config \in TypeOf("config", tokens)
        BY <1>0 DEF FilesType, Copied
      <3> QED BY <3>1, <3>2, TypesAre
    <2>5. HandlerType(r, tokens)
      BY <2>1, <2>2, <2>4, EmptyTyped, LabelsApart DEF HandlerType, Todos, Names
    <2>6. Idle.at = "idle" /\ HandlerType(Idle, tokens)
      BY IdleTyped DEF Idle
    <2> QED BY <1>3, <2>2, <2>3, <2>5, <2>6
  <1> QED BY <1>4, <1>5, <1>6

LEMMA PublishTyped ==
    ASSUME TypeOK, NEW h \in Handler, PublishStep(h)
    PROVE  \E r : Typed(h, r)
  <1>1. UNCHANGED made /\ req[h].at \in {"publish", "service", "wait", "reload"}
    BY DEF PublishStep, StartHelper, Declined, TakeResult, WaitNoLonger, Reload, At, pubVars
  <1>2. Token' = Token
    BY <1>1 DEF Token
  <1>3. HandlerType(req[h], Token) /\ DOMAIN req[h] = DOMAIN Idle /\ req[h].todo = << >>
    BY <1>1 DEF TypeOK, HandlerType
  <1>4. CASE Answer(h)
    <2>1. Idle.at = "idle" /\ HandlerType(Idle, Token')
      BY IdleTyped DEF Idle
    <2> QED BY <1>4, <2>1 DEF Answer, Typed
  <1>5. ASSUME NEW r, Becomes(h, r), DOMAIN r = DOMAIN Idle, r.seen = req[h].seen, r.next = req[h].next,
               r.tok = req[h].tok, r.old = req[h].old, r.edit = req[h].edit, r.todo = req[h].todo,
               r.at \in {"wait", "reload", "service"},
               r.at \in {"service", "reload"} => req[h].edit \in Order,
               r.at = "wait" => r.helper \in DOMAIN helper'
        PROVE  \E x : Typed(h, x)
    <2>1. HandlerType(r, Token)
      BY <1>1, <1>3, <1>5, MovedTyped
    <2> QED BY <1>2, <1>5, <2>1 DEF Typed
  <1>6. CASE StartHelper(h)
    <2> DEFINE r == [req[h] EXCEPT !.at = "wait", !.helper = Len(helper) + 1]
    <2>1. Becomes(h, r) /\ \E u : helper' = Append(helper, u)
      BY <1>6 DEF StartHelper
    <2>2. helper \in Seq({helper[i] : i \in DOMAIN helper})
      BY DEF TypeOK
    <2>3. Len(helper) + 1 \in DOMAIN helper'
      BY <2>1, <2>2
    <2>4. /\ DOMAIN r = DOMAIN Idle /\ r.seen = req[h].seen /\ r.next = req[h].next
          /\ r.tok = req[h].tok /\ r.old = req[h].old /\ r.edit = req[h].edit /\ r.todo = req[h].todo
          /\ r.at = "wait" /\ r.helper = Len(helper) + 1
      BY <1>3 DEF Idle
    <2> HIDE DEF r
    <2> QED BY <1>5, <2>1, <2>3, <2>4
  <1>7. CASE TakeResult(h) /\ ~ Answer(h)
    <2> DEFINE r == [req[h] EXCEPT !.at = "reload", !.helper = 0]
    <2>1. /\ DOMAIN r = DOMAIN Idle /\ r.seen = req[h].seen /\ r.next = req[h].next
          /\ r.tok = req[h].tok /\ r.old = req[h].old /\ r.edit = req[h].edit /\ r.todo = req[h].todo
          /\ r.at = "reload"
      BY <1>3 DEF Idle
    <2>2. Becomes(h, r) /\ req[h].edit.kind = "publish"
      BY <1>7 DEF TakeResult, ReloadDue
    <2>3. req[h].edit \in Order
      <3>1. \A e \in Edit : e.kind # "publish"
        BY TypeAssumption DEF EditType
      <3> QED BY <1>1, <1>3, <2>2, <3>1 DEF HandlerType
    <2> HIDE DEF r
    <2> QED BY <1>5, <2>1, <2>2, <2>3
  <1>8. CASE Reload(h) /\ ~ Answer(h)
    <2> DEFINE r == [req[h] EXCEPT !.at = "service", !.label = "restart"]
    <2>1. /\ DOMAIN r = DOMAIN Idle /\ r.seen = req[h].seen /\ r.next = req[h].next
          /\ r.tok = req[h].tok /\ r.old = req[h].old /\ r.edit = req[h].edit /\ r.todo = req[h].todo
          /\ r.at = "service"
      BY <1>3 DEF Idle
    <2>2. Becomes(h, r) /\ req[h].at = "reload"
      BY <1>8 DEF Reload, At
    <2>3. req[h].edit \in Order
      BY <1>3, <2>2 DEF HandlerType
    <2> HIDE DEF r
    <2> QED BY <1>5, <2>1, <2>2, <2>3
  <1> QED BY <1>4, <1>6, <1>7, <1>8 DEF PublishStep, Declined, TakeResult, WaitNoLonger, Refused

LEMMA TodoTyped ==
    ASSUME NEW todo \in Todos, todo # << >>
    PROVE  Head(todo) \in Files /\ Tail(todo) \in Todos
  <1>1. CASE todo = <<"config", "ops">>
    BY <1>1 DEF Files, Todos
  <1>2. ASSUME NEW f \in Files, todo = <<f>>
        PROVE  Head(todo) \in Files /\ Tail(todo) \in Todos
    <2>1. Head(<<f>>) = f /\ Tail(<<f>>) = << >>
      OBVIOUS
    <2> QED BY <1>2, <2>1 DEF Todos
  <1>3. "config" \in Files /\ "ops" \in Files /\ "keys" \in Files
    BY DEF Files
  <1> QED BY <1>1, <1>2, <1>3 DEF Todos

LEMMA EditIs ==
    ASSUME NEW e \in Edit
    PROVE  /\ e.kind \in {"add", "grants", "remove", "service", "disable", "enable",
                          "regenerate", "agent", "admin"}
           /\ e.kind \in {"add", "grants"} => e.id \in Op /\ e.roles \subseteq Role
           /\ e.kind = "remove" => e.id \in Op
           /\ e.kind = "service" => e.site \in Site /\ e.ids \subseteq Op /\ e.roles \subseteq Role
           /\ e.kind \in {"disable", "enable"} => e.site \in Site
           /\ e.kind \in {"regenerate", "agent"} => e.agent \in Agent
  BY TypeAssumption DEF EditType

\* An edit of a config with a type has one, once its token is in being.
LEMMA EditedTyped ==
    ASSUME NEW m, NEW n, m \subseteq n, NEW e \in Edit, NEW c \in TypeOf("config", m), c # Nil,
           NEW t, TakesToken(e) => t \in n, NEW o \in SUBSET Op
    PROVE  EditedConfig(e, c, t) \in TypeOf("config", n) /\ EditedOps(e, o) \in SUBSET Op
  <1> DEFINE C == [agents : [Agent -> n \cup {Nil}], admin : n \cup {Nil},
                   granted : SUBSET (Role \X Op), sites : SUBSET Site, off : SUBSET Site]
  <1>1. c \in C
    <2>1. c \in TypeOf("config", n)
      BY TypesGrow DEF Files
    <2> QED BY <2>1, TypesAre
  <1>2. \A x \in C : x \in TypeOf("config", n)
    BY TypesAre
  <1>3. /\ e.kind \in {"add", "grants", "remove", "service", "disable", "enable",
                       "regenerate", "agent", "admin"}
        /\ e.kind \in {"add", "grants"} => e.id \in Op /\ e.roles \subseteq Role
        /\ e.kind = "remove" => e.id \in Op
        /\ e.kind = "service" => e.site \in Site /\ e.ids \subseteq Op /\ e.roles \subseteq Role
        /\ e.kind \in {"disable", "enable"} => e.site \in Site
        /\ e.kind \in {"regenerate", "agent"} => e.agent \in Agent
    BY EditIs
  <1>4. ASSUME NEW g, g \in SUBSET (Role \X Op) PROVE [c EXCEPT !.granted = g] \in C
    BY <1>1, <1>4
  <1>5. c.granted \in SUBSET (Role \X Op) /\ c.sites \in SUBSET Site /\ c.off \in SUBSET Site
    BY <1>1
  <1> HIDE DEF C
  <1>6. CASE e.kind \in {"add", "grants"}
    <2>1. /\ addGrants(c.granted, e.id, e.roles) \in SUBSET (Role \X Op)
          /\ setGrants(c.granted, e.id, e.roles) \in SUBSET (Role \X Op)
      BY <1>3, <1>5, <1>6 DEF addGrants, setGrants, Grants
    <2>2. \/ EditedConfig(e, c, t) = [c EXCEPT !.granted = addGrants(c.granted, e.id, e.roles)]
          \/ EditedConfig(e, c, t) = [c EXCEPT !.granted = setGrants(c.granted, e.id, e.roles)]
      BY <1>6 DEF EditedConfig
    <2>3. EditedOps(e, o) \in SUBSET Op
      <3>1. e.kind = "add" => EditedOps(e, o) = o \cup {e.id}
        BY DEF EditedOps, addOperation
      <3>2. e.kind = "grants" => EditedOps(e, o) = o
        BY DEF EditedOps
      <3>3. e.id \in Op
        BY <1>3, <1>6
      <3>4. o \cup {e.id} \in SUBSET Op
        BY <3>3
      <3> QED BY <1>6, <3>1, <3>2, <3>4
    <2> QED BY <1>2, <1>4, <2>1, <2>2, <2>3
  <1>7. CASE e.kind = "remove"
    <2>1. setGrants(c.granted, e.id, {}) \in SUBSET (Role \X Op)
      BY <1>3, <1>5, <1>7 DEF setGrants, Grants
    <2>2. EditedConfig(e, c, t) = [c EXCEPT !.granted = setGrants(c.granted, e.id, {})]
      BY <1>7 DEF EditedConfig
    <2>3. EditedOps(e, o) \in SUBSET Op
      BY <1>7 DEF EditedOps
    <2> QED BY <1>2, <1>4, <2>1, <2>2, <2>3
  <1>8. CASE e.kind = "service"
    <2>1. /\ c.granted \cup (e.roles \X e.ids) \in SUBSET (Role \X Op)
          /\ c.sites \cup {e.site} \in SUBSET Site
      BY <1>3, <1>5, <1>8
    <2>2. EditedConfig(e, c, t) = [c EXCEPT !.sites = c.sites \cup {e.site},
                                             !.granted = c.granted \cup (e.roles \X e.ids)]
      BY <1>8 DEF EditedConfig
    <2>3. EditedOps(e, o) \in SUBSET Op
      BY <1>3, <1>8 DEF EditedOps, addOperation
    <2>4. EditedConfig(e, c, t) \in C
      BY <1>1, <2>1, <2>2 DEF C
    <2> QED BY <1>2, <2>3, <2>4
  <1>9. CASE e.kind \in {"disable", "enable"}
    <2>1. c.off \cup {e.site} \in SUBSET Site /\ c.off \ {e.site} \in SUBSET Site
      BY <1>3, <1>5, <1>9
    <2>2. \/ EditedConfig(e, c, t) = [c EXCEPT !.off = c.off \cup {e.site}]
          \/ EditedConfig(e, c, t) = [c EXCEPT !.off = c.off \ {e.site}]
      BY <1>9 DEF EditedConfig
    <2>3. EditedOps(e, o) \in SUBSET Op
      BY <1>9 DEF EditedOps
    <2>4. EditedConfig(e, c, t) \in C
      BY <1>1, <2>1, <2>2 DEF C
    <2> QED BY <1>2, <2>3, <2>4
  <1>10. CASE e.kind \in {"regenerate", "agent", "admin"}
    <2>1. t \in n
      BY <1>10 DEF TakesToken
    <2>2. \/ EditedConfig(e, c, t) = [c EXCEPT !.agents[e.agent] = t]
          \/ EditedConfig(e, c, t) = [c EXCEPT !.admin = t]
      BY <1>10 DEF EditedConfig
    <2>3. EditedOps(e, o) \in SUBSET Op
      BY <1>10 DEF EditedOps
    <2>4. [c EXCEPT !.agents[e.agent] = t] \in C /\ [c EXCEPT !.admin = t] \in C
      BY <1>1, <2>1 DEF C
    <2> QED BY <1>2, <2>2, <2>3, <2>4
  <1> QED BY <1>3, <1>6, <1>7, <1>8, <1>9, <1>10

LEMMA MakeEditTyped ==
    ASSUME TypeOK, NEW h \in Handler, MakeEdit(h)
    PROVE  Typed(h, Edited(req[h])) /\ Token \subseteq Token' /\ made' \in Seq(Party \cup {Nil})
  <1> DEFINE old == req[h]
             e == old.edit
             c == old.seen.config
             r == Edited(old)
             m == Token
             n == Token'
  <1>1. /\ Becomes(h, r) /\ old.at = "edit" /\ c # Nil
        /\ made' = IF TakesToken(e) THEN Append(made, PartyOf(e)) ELSE made
    BY DEF MakeEdit, Edited, At, Commits
  <1>2. /\ HandlerType(old, m) /\ e \in Edit /\ made \in Seq(Party \cup {Nil}) /\ DOMAIN old = DOMAIN Idle
    BY <1>1 DEF TypeOK, HandlerType
  <1>3. /\ DOMAIN r = DOMAIN Idle /\ DOMAIN r.next = Files
        /\ r.at = "write" /\ r.edit = e /\ r.seen = old.seen
        /\ r.next.config = EditedConfig(e, c, NextToken)
        /\ r.next.ops = EditedOps(e, old.seen.ops) /\ r.next.keys = << >>
        /\ r.tok = IF TakesToken(e) THEN NextToken ELSE Nil
        /\ r.old = IF e.kind = "regenerate" THEN TokenOf(e, c) ELSE Nil
        /\ r.todo = IF r.next.config # r.seen.config
                    THEN IF r.next.ops # r.seen.ops THEN <<"config", "ops">> ELSE <<"config">>
                    ELSE IF r.next.ops # r.seen.ops THEN <<"ops">> ELSE << >>
    BY <1>2, EditedIs
  <1>4. TakesToken(e) => PartyOf(e) \in Party
    BY <1>2, EditIs DEF TakesToken, PartyOf, Party
  <1>5. /\ made' \in Seq(Party \cup {Nil}) /\ m \subseteq n /\ (TakesToken(e) => NextToken \in n)
    <2>1. CASE TakesToken(e)
      <3>1. made' = Append(made, PartyOf(e)) /\ PartyOf(e) \in Party \cup {Nil} /\ NextToken = Len(made) + 1
        BY <1>1, <1>4, <2>1 DEF NextToken
      <3>2. /\ Append(made, PartyOf(e)) \in Seq(Party \cup {Nil}) /\ Grown(made, Append(made, PartyOf(e)))
            /\ Len(made) + 1 \in DOMAIN Append(made, PartyOf(e))
        BY <1>2, <3>1, MadeGrows
      <3> QED BY <3>1, <3>2 DEF Token, Grown
    <2>2. CASE ~ TakesToken(e)
      BY <1>1, <1>2, <2>2 DEF Token
    <2> QED BY <2>1, <2>2
  <1> HIDE DEF m, n, r
  <1>6. FilesType(old.seen, Files, m) /\ c \in TypeOf("config", m) /\ old.seen.ops \in SUBSET Op
    BY <1>2, TypesAre DEF HandlerType, FilesType, Files
  <1>7. EditedConfig(e, c, NextToken) \in TypeOf("config", n) /\ EditedOps(e, old.seen.ops) \in SUBSET Op
    <2>1. m \subseteq n /\ e \in Edit /\ c # Nil /\ (TakesToken(e) => NextToken \in n)
      BY <1>1, <1>2, <1>5
    <2> HIDE DEF e, c, old
    <2> QED BY <1>6, <2>1, EditedTyped
  <1>8. FilesType(r.next, Files, n)
    <2>1. r.next.keys \in TypeOf("keys", n)
      <3>1. << >> \in Seq([label : Names, token : n])
        OBVIOUS
      <3> QED BY <1>3, <3>1, TypesAre
    <2> QED BY <1>3, <1>7, <2>1, TypesAre DEF FilesType, Files
  <1>9. FilesType(r.seen, Files, n)
    BY <1>3, <1>5, <1>6, TypesGrow
  <1>10. r.tok \in n \cup {Nil} /\ (r.tok # Nil => TakesToken(e))
    BY <1>3, <1>5
  <1>11. r.old \in n \cup {Nil}
    <2>1. e.kind = "regenerate" => e.agent \in Agent
      BY <1>2, EditIs
    <2>2. c.agents \in [Agent -> m \cup {Nil}] /\ c.admin \in m \cup {Nil}
      BY <1>1, <1>6, TypesAre
    <2>3. e.kind = "regenerate" => TokenOf(e, c) \in m \cup {Nil}
      BY <2>1, <2>2 DEF TokenOf, TokenIn, PartyOf
    <2> QED BY <1>3, <1>5, <2>3
  <1>12. r.todo \in Todos
    BY <1>3 DEF Todos
  <1>13. HandlerType(r, n)
    BY <1>2, <1>3, <1>8, <1>9, <1>10, <1>11, <1>12 DEF HandlerType
  <1> QED BY <1>1, <1>3, <1>5, <1>13 DEF Typed, m, n, r

\* Recording a token leaves at least the block of that token.
LEMMA RecordTyped ==
    ASSUME NEW m, NEW r, HandlerType(r, m), r.at = "keys", NEW keys \in TypeOf("keys", m)
    PROVE  LET new == upsertKey(keys, r.label, r.old, r.tok)
           IN  new \in TypeOf("keys", m) /\ new # << >>
  <1> DEFINE new == upsertKey(keys, r.label, r.old, r.tok)
             B == [label : Names, token : m]
             block == [label |-> r.label, token |-> r.tok]
  <1>1. r.tok \in m /\ r.label \in Names
    BY DEF HandlerType
  <1>2. keys \in Seq(B)
    BY TypesAre
  <1>3. block \in B
    BY <1>1
  <1>4. new \in Seq(B) /\ \E i \in DOMAIN new : new[i] = block
    <2> HIDE DEF B, new
    <2>1. new = upsertKey(keys, r.label, r.old, r.tok)
      BY DEF new
    <2> QED BY <1>2, <1>3, <2>1, Upserted
  <1>5. new # << >>
    BY <1>4
  <1> HIDE DEF new
  <1>6. new \in TypeOf("keys", m)
    BY <1>4, TypesAre
  <1> QED BY <1>5, <1>6 DEF new

\* The label of the block that has the old token is one of the file.
LEMMA LabelTyped ==
    ASSUME NEW m, NEW r, HandlerType(r, m), r.tok # Nil, r.at = "write", r.next.keys = << >>,
           NEW keys \in TypeOf("keys", m)
    PROVE  LET hits == WithToken(keys, r.old)
               label == IF hits # {} THEN keys[First(hits)].label
                        ELSE IF r.edit.kind = "admin" THEN AdminLabel ELSE r.edit.agent
           IN  label \in Names
  <1> DEFINE hits == WithToken(keys, r.old)
             B == [label : Names, token : m]
  <1>1. r.edit \in Edit /\ TakesToken(r.edit)
    BY DEF HandlerType
  <1>2. \A i \in DOMAIN keys : keys[i] \in B
    <2>1. keys \in Seq(B)
      BY TypesAre
    <2> HIDE DEF B
    <2> QED BY <2>1, SeqIn
  <1>3. hits # {} => keys[First(hits)] \in B
    <2>1. hits \subseteq DOMAIN keys /\ DOMAIN keys \subseteq Nat
      <3>1. keys \in Seq(B)
        BY TypesAre
      <3>2. DOMAIN keys = 1..Len(keys) /\ Len(keys) \in Nat
        BY <3>1, LenProperties
      <3> QED BY <3>2 DEF WithToken
    <2> HIDE DEF hits, B
    <2> QED BY <1>2, <2>1, FirstHit
  <1>4. AdminLabel \in Names /\ Agent \subseteq Names
    BY DEF Names, Party
  <1>5. r.edit.kind = "admin" \/ r.edit.agent \in Agent
    BY <1>1, EditIs DEF TakesToken
  <1> HIDE DEF hits
  <1>6. hits # {} => keys[First(hits)].label \in Names
    BY <1>3
  <1> QED BY <1>4, <1>5, <1>6 DEF hits

LEMMA FileTyped ==
    ASSUME TypeOK, NEW h \in Handler, Truncate(h) \/ Fill(h)
    PROVE  FilesType(file', Files, Token)
  <1>1. HandlerType(req[h], Token) /\ FilesType(file, Files, Token)
    BY DEF TypeOK
  <1>2. req[h].todo # << >> /\ req[h].todo \in Todos
    BY <1>1 DEF Truncate, Fill, At, HandlerType
  <1> DEFINE f == Head(req[h].todo)
             tokens == Token
  <1>3. f \in Files
    BY <1>2, TodoTyped
  <1>4. \E x \in TypeOf(f, tokens) : file' = [file EXCEPT ![f] = x]
    <2>1. CASE Truncate(h)
      <3>1. file' = [file EXCEPT ![f] = Empty[f]]
        BY <2>1 DEF Truncate
      <3> QED BY <1>3, <3>1, EmptyTyped
    <2>2. CASE Fill(h)
      <3>1. file' = [file EXCEPT ![f] = req[h].next[f]]
        BY <2>2 DEF Fill
      <3> QED BY <1>1, <1>3, <3>1 DEF HandlerType, FilesType
    <2> QED BY <2>1, <2>2
  <1> HIDE DEF f, tokens
  <1>5. FilesType(file, Files, tokens)
    BY <1>1 DEF tokens
  <1>6. FilesType(file', Files, tokens)
    BY <1>3, <1>4, <1>5 DEF FilesType
  <1> QED BY <1>6 DEF tokens

LEMMA WriteTyped ==
    ASSUME TypeOK, NEW h \in Handler, Truncate(h) \/ Fill(h)
    PROVE  \E r : Typed(h, r)
  <1>1. HandlerType(req[h], Token) /\ UNCHANGED made
    BY DEF TypeOK, Truncate, Fill
  <1>2. req[h].todo # << >> /\ req[h].todo \in Todos /\ req[h].at \in {"write", "fill"}
    BY <1>1 DEF Truncate, Fill, At, HandlerType
  <1> DEFINE f == Head(req[h].todo)
             tokens == Token
             q == req[h]
  <1>3. f \in Files /\ Tail(q.todo) \in Todos
    BY <1>2, TodoTyped
  <1>4. Token' = tokens
    BY <1>1 DEF Token
  <1>5. CASE Truncate(h)
    <2> DEFINE r == [q EXCEPT !.at = "fill"]
    <2>1. Becomes(h, r)
      BY <1>5 DEF Truncate, Goes
    <2>2. r.at = "fill" /\ HandlerType(r, tokens)
      BY <1>1, <1>2 DEF HandlerType, Idle, Recorded
    <2> QED BY <1>4, <2>1, <2>2 DEF Typed
  <1>6. CASE Fill(h)
    <2> DEFINE r == [q EXCEPT !.at = "write", !.todo = Tail(@), !.seen[f] = q.next[f]]
    <2>1. Becomes(h, r)
      BY <1>6 DEF Fill
    <2>2. /\ DOMAIN r = DOMAIN Idle /\ r.at = "write" /\ r.edit = q.edit /\ r.next = q.next
          /\ r.seen = [q.seen EXCEPT ![f] = q.next[f]] /\ r.todo = Tail(q.todo)
          /\ r.tok = q.tok /\ r.old = q.old
      BY <1>1 DEF HandlerType, Idle
    <2> HIDE DEF r, f, tokens
    <2>3. FilesType(q.seen, Files, tokens) /\ FilesType(q.next, Files, tokens)
      BY <1>1 DEF HandlerType, tokens
    <2>4. FilesType(r.seen, Files, tokens)
      BY <1>3, <2>2, <2>3 DEF FilesType
    <2>5. r.todo \in Todos
      BY <1>3, <2>2
    <2>6. HandlerType(r, tokens)
      BY <1>1, <1>2, <2>2, <2>3, <2>4, <2>5 DEF HandlerType, tokens
    <2> QED BY <1>4, <2>1, <2>2, <2>6 DEF Typed
  <1> QED BY <1>5, <1>6

LEMMA KeyTyped ==
    ASSUME TypeOK, NEW h \in Handler, LabelKey(h) \/ ReadKeys(h) \/ KeyRecorded(h)
    PROVE  (\E r : Typed(h, r)) /\ held' \in Token \cup {Nil}
  <1> DEFINE q == req[h]
             tokens == Token
  <1>1. /\ HandlerType(q, tokens) /\ UNCHANGED made /\ file.keys \in TypeOf("keys", tokens)
        /\ held \in tokens \cup {Nil} /\ q.tok \in tokens \cup {Nil}
    BY DEF TypeOK, LabelKey, ReadKeys, KeyRecorded, Untouched, FilesType, Files, HandlerType
  <1>2. Token' = tokens
    BY <1>1 DEF Token
  <1>3. ASSUME NEW r, Becomes(h, r), HandlerType(r, tokens), r.at # "wait", held' \in tokens \cup {Nil}
        PROVE  (\E x : Typed(h, x)) /\ held' \in Token \cup {Nil}
    BY <1>2, <1>3 DEF Typed
  <1>4. CASE LabelKey(h)
    <2> DEFINE hits == WithToken(file.keys, q.old)
               label == IF hits # {} THEN file.keys[First(hits)].label
                        ELSE IF q.edit.kind = "admin" THEN AdminLabel ELSE q.edit.agent
               r == [q EXCEPT !.at = "keys", !.label = label]
    <2>1. Becomes(h, r) /\ held' = held /\ q.at = "write" /\ q.todo = << >> /\ q.tok # Nil /\ q.next.keys = << >>
      BY <1>4 DEF LabelKey, Untouched, At, Recorded
    <2>2. label \in Names
      BY <1>1, <2>1, LabelTyped
    <2> HIDE DEF label
    <2>3. /\ DOMAIN r = DOMAIN Idle /\ r.at = "keys" /\ r.label = label /\ r.edit = q.edit /\ r.next = q.next
          /\ r.seen = q.seen /\ r.todo = q.todo /\ r.tok = q.tok /\ r.old = q.old
      BY <1>1 DEF HandlerType, Idle
    <2> HIDE DEF r, tokens
    <2>4. HandlerType(r, tokens)
      BY <1>1, <2>1, <2>2, <2>3 DEF HandlerType
    <2> QED BY <1>1, <1>3, <2>1, <2>3, <2>4
  <1>5. CASE ReadKeys(h)
    <2> DEFINE keys == upsertKey(file.keys, q.label, q.old, q.tok)
               r == [q EXCEPT !.at = "write", !.todo = <<"keys">>, !.seen.keys = file.keys, !.next.keys = keys]
    <2>1. Becomes(h, r) /\ held' = held /\ q.at = "keys"
      BY <1>5 DEF ReadKeys, Untouched, At
    <2>2. keys \in TypeOf("keys", tokens) /\ keys # << >>
      BY <1>1, <2>1, RecordTyped
    <2> HIDE DEF keys
    <2>3. /\ DOMAIN r = DOMAIN Idle /\ r.at = "write" /\ r.edit = q.edit /\ r.todo = <<"keys">>
          /\ r.next = [q.next EXCEPT !.keys = keys] /\ r.seen = [q.seen EXCEPT !.keys = file.keys]
          /\ r.tok = q.tok /\ r.old = q.old
      BY <1>1 DEF HandlerType, Idle
    <2> HIDE DEF r, tokens
    <2>4. FilesType(r.next, Files, tokens) /\ FilesType(r.seen, Files, tokens) /\ r.next.keys = keys
      BY <1>1, <2>2, <2>3 DEF HandlerType, FilesType, Files
    <2>5. r.todo \in Todos /\ r.todo # << >>
      BY <2>3 DEF Todos
    <2>6. /\ DOMAIN r = DOMAIN Idle /\ r.at = "write" /\ r.edit = q.edit /\ r.tok = q.tok /\ r.old = q.old
      BY <2>3
    <2>7. HandlerType(r, tokens)
      BY <1>1, <2>1, <2>2, <2>4, <2>5, <2>6 DEF HandlerType
    <2> QED BY <1>1, <1>3, <2>1, <2>3, <2>7
  <1>6. CASE KeyRecorded(h)
    <2>1. q.at = "write" /\ q.todo = << >> /\ held' \in tokens \cup {Nil}
      BY <1>1, <1>6 DEF KeyRecorded, At
    <2>2. CASE Answer(h)
      <3>1. Idle.at # "wait" /\ HandlerType(Idle, tokens)
        BY IdleTyped DEF Idle
      <3> QED BY <1>3, <2>1, <2>2, <3>1 DEF Answer
    <2>3. CASE Goes(h, "publish")
      <3> DEFINE r == [q EXCEPT !.at = "publish"]
      <3>1. Becomes(h, r)
        BY <2>3 DEF Goes
      <3>2. /\ DOMAIN r = DOMAIN Idle /\ r.at = "publish" /\ r.edit = q.edit /\ r.next = q.next
            /\ r.seen = q.seen /\ r.todo = q.todo /\ r.tok = q.tok /\ r.old = q.old
        BY <1>1 DEF HandlerType, Idle
      <3> HIDE DEF r, tokens
      <3>3. HandlerType(r, tokens)
        BY <1>1, <2>1, <3>2, MovedTyped
      <3> QED BY <1>3, <2>1, <3>1, <3>2, <3>3
    <2> QED BY <1>6, <2>2, <2>3 DEF KeyRecorded
  <1> QED BY <1>4, <1>5, <1>6

LEMMA OpenTyped ==
    ASSUME TypeOK, NEW h \in Handler, OpenOps(h)
    PROVE  \E r : Typed(h, r)
  <1> DEFINE q == req[h]
             tokens == Token
             r == [q EXCEPT !.at = "edit", !.seen.ops = file.ops]
  <1>1. /\ HandlerType(q, tokens) /\ UNCHANGED made /\ file.ops \in TypeOf("ops", tokens) /\ q.at = "ops"
        /\ Becomes(h, r)
    BY DEF TypeOK, OpenOps, FilesType, Files, At
  <1>2. Token' = tokens
    BY <1>1 DEF Token
  <1>3. /\ DOMAIN r = DOMAIN Idle /\ r.at = "edit" /\ r.edit = q.edit /\ r.todo = q.todo /\ r.next = q.next
        /\ r.seen = [q.seen EXCEPT !.ops = file.ops] /\ r.tok = q.tok /\ r.old = q.old
    BY <1>1 DEF HandlerType, Idle
  <1> HIDE DEF r, tokens
  <1>4. FilesType(r.seen, Files, tokens)
    BY <1>1, <1>3 DEF HandlerType, FilesType, Files
  <1>5. HandlerType(r, tokens)
    BY <1>1, <1>3, <1>4 DEF HandlerType
  <1> QED BY <1>1, <1>2, <1>3, <1>5 DEF Typed

\* What the step of an edit leaves is of the same types.
LEMMA EditStepTyped ==
    ASSUME TypeOK, NEW h \in Handler, EditStep(h)
    PROVE  /\ \E r : Typed(h, r)
           /\ FilesType(file', Files, Token') /\ held' \in Token' \cup {Nil} /\ asked' \in 0..MaxRequest
           /\ Token \subseteq Token' /\ made' \in Seq(Party \cup {Nil})
  <1>1. /\ FilesType(file, Files, Token) /\ held \in Token \cup {Nil} /\ asked \in 0..MaxRequest
        /\ made \in Seq(Party \cup {Nil})
    BY DEF TypeOK
  <1>2. asked' = asked
    BY DEF EditStep, OpenOps, MakeEdit, RefuseEdit, Truncate, Fill, WriteFails, EditDone, LabelKey,
           ReadKeys, KeyRecorded, Untouched
  <1>3. CASE MakeEdit(h)
    <2>1. file' = file /\ held' = held
      BY <1>3 DEF MakeEdit
    <2>2. Typed(h, Edited(req[h])) /\ Token \subseteq Token' /\ made' \in Seq(Party \cup {Nil})
      BY <1>3, MakeEditTyped
    <2>3. FilesType(file', Files, Token')
      BY <1>1, <2>1, <2>2, TypesGrow
    <2> QED BY <1>1, <1>2, <2>1, <2>2, <2>3
  <1>4. CASE ~ MakeEdit(h)
    <2>1. made' = made
      BY <1>4 DEF EditStep, OpenOps, RefuseEdit, Truncate, Fill, WriteFails, EditDone, LabelKey,
                  ReadKeys, KeyRecorded, Untouched
    <2>2. Token' = Token
      BY <2>1 DEF Token
    <2>3. \E r : Typed(h, r)
      <3>1. ASSUME Answer(h) PROVE \E r : Typed(h, r)
        <4>1. Idle.at # "wait" /\ HandlerType(Idle, Token')
          BY IdleTyped DEF Idle
        <4> QED BY <3>1, <4>1 DEF Answer, Typed
      <3>2. CASE RefuseEdit(h) \/ WriteFails(h) \/ EditDone(h)
        BY <3>1, <3>2 DEF RefuseEdit, WriteFails, EditDone
      <3> QED BY <1>4, <3>2, OpenTyped, WriteTyped, KeyTyped DEF EditStep
    <2>4. FilesType(file', Files, Token)
      <3>1. CASE ~ (Truncate(h) \/ Fill(h))
        <4>1. file' = file
          BY <1>4, <3>1 DEF EditStep, OpenOps, RefuseEdit, WriteFails, EditDone, LabelKey,
                            ReadKeys, KeyRecorded, Untouched
        <4> QED BY <1>1, <4>1
      <3> QED BY <3>1, FileTyped
    <2>5. held' \in Token \cup {Nil}
      <3>1. CASE ~ KeyRecorded(h)
        <4>1. held' = held
          BY <1>4, <3>1 DEF EditStep, OpenOps, RefuseEdit, Truncate, Fill, WriteFails, EditDone, LabelKey,
                            ReadKeys, Untouched
        <4> QED BY <1>1, <4>1
      <3> QED BY <3>1, KeyTyped
    <2> QED BY <1>1, <1>2, <2>1, <2>2, <2>3, <2>4, <2>5
  <1> QED BY <1>3, <1>4

-----------------------------------------------------------------------------
(* The helpers and the gateway keep their types.                           *)

LEMMA HandlersTyped ==
    ASSUME TypeOK, NEW h \in Handler, \E r : Typed(h, r), Token \subseteq Token',
           DOMAIN helper \subseteq DOMAIN helper'
    PROVE  /\ DOMAIN req' = Handler /\ \A k \in Handler : HandlerType(req'[k], Token')
           /\ \A k \in Handler : req'[k].at = "wait" => req'[k].helper \in DOMAIN helper'
  <1>1. PICK r : Typed(h, r)
    OBVIOUS
  <1>2. /\ DOMAIN req = Handler /\ \A k \in Handler : HandlerType(req[k], Token)
        /\ \A k \in Handler : req[k].at = "wait" => req[k].helper \in DOMAIN helper
    BY DEF TypeOK, At
  <1>3. req' = [req EXCEPT ![h] = r] /\ HandlerType(r, Token') /\ (r.at = "wait" => r.helper \in DOMAIN helper')
    BY <1>1 DEF Typed, Becomes
  <1>4. \A k \in Handler : HandlerType(req[k], Token')
    BY <1>2, TypesGrow
  <1> QED BY <1>2, <1>3, <1>4

LEMMA HelpersTyped ==
    ASSUME TypeOK, NEW m, Token \subseteq m, NEW new, new = [i \in DOMAIN helper |-> new[i]],
           \A i \in DOMAIN helper : new[i] = helper[i] \/ HelperType(new[i], m)
    PROVE  /\ new \in Seq({new[i] : i \in DOMAIN new})
           /\ \A i \in DOMAIN new : HelperType(new[i], m)
  <1>1. /\ helper \in Seq({helper[i] : i \in DOMAIN helper})
        /\ \A i \in DOMAIN helper : HelperType(helper[i], Token)
    BY DEF TypeOK
  <1>2. DOMAIN new = DOMAIN helper
    OBVIOUS
  <1>3. \A i \in DOMAIN new : HelperType(new[i], m)
    <2>1. \A i \in DOMAIN helper : HelperType(helper[i], m)
      BY <1>1, TypesGrow
    <2> QED BY <1>2, <2>1
  <1> DEFINE S == {helper[i] : i \in DOMAIN helper}
             T == {new[i] : i \in DOMAIN new}
  <1>4. \A i \in DOMAIN new : new[i] \in T
    OBVIOUS
  <1>5. helper \in Seq(S)
    BY <1>1
  <1> HIDE DEF S, T
  <1>6. Len(helper) \in Nat /\ DOMAIN helper = 1..Len(helper)
    BY <1>5, LenProperties
  <1>7. new \in [1..Len(helper) -> T]
    BY <1>2, <1>4, <1>6
  <1>8. new \in Seq(T)
    BY <1>6, <1>7, SeqDef
  <1> QED BY <1>3, <1>8 DEF T

LEMMA StartTyped ==
    ASSUME TypeOK, NEW u, HelperType(u, Token)
    PROVE  LET new == Append(helper, u)
           IN  /\ new \in Seq({new[i] : i \in DOMAIN new})
               /\ \A i \in DOMAIN new : HelperType(new[i], Token)
               /\ DOMAIN helper \subseteq DOMAIN new
  <1> DEFINE new == Append(helper, u)
             S == {helper[i] : i \in DOMAIN helper} \cup {u}
             T == {new[i] : i \in DOMAIN new}
  <1>1. /\ \A i \in DOMAIN helper : HelperType(helper[i], Token) /\ helper[i] \in S
        /\ helper \in Seq({helper[i] : i \in DOMAIN helper}) /\ u \in S
    BY DEF TypeOK
  <1>2. helper \in Seq(S)
    BY <1>1, SeqIn
  <1> HIDE DEF S
  <1>3. /\ new \in Seq(S) /\ Len(new) = Len(helper) + 1 /\ new[Len(helper) + 1] = u
        /\ \A i \in 1..Len(helper) : new[i] = helper[i]
    BY <1>1, <1>2, AppendProperties
  <1>4. \A i \in DOMAIN new : new[i] \in T
    OBVIOUS
  <1> HIDE DEF new, T
  <1>5. DOMAIN new = 1..(Len(helper) + 1) /\ DOMAIN helper = 1..Len(helper) /\ Len(helper) \in Nat
    BY <1>2, <1>3, LenProperties
  <1>6. \A i \in DOMAIN new : HelperType(new[i], Token)
    BY <1>1, <1>3, <1>5
  <1>7. new \in Seq(T)
    BY <1>3, <1>4, SeqIn
  <1>8. DOMAIN helper \subseteq DOMAIN new
    BY <1>5
  <1> QED BY <1>6, <1>7, <1>8 DEF new, T

\* What a step of a helper leaves is of the same types.
HelpersTypedNow ==
    /\ helper' \in Seq({helper'[i] : i \in DOMAIN helper'})
    /\ \A i \in DOMAIN helper' : HelperType(helper'[i], Token)
    /\ DOMAIN helper \subseteq DOMAIN helper'

LEMMA OneTyped ==
    ASSUME TypeOK, NEW i \in DOMAIN helper, NEW u, helper' = [helper EXCEPT ![i] = u], HelperType(u, Token)
    PROVE  HelpersTypedNow
  <1> DEFINE new == helper'
  <1>1. /\ new = [j \in DOMAIN helper |-> new[j]]
        /\ \A j \in DOMAIN helper : new[j] = helper[j] \/ HelperType(new[j], Token)
    OBVIOUS
  <1>2. DOMAIN new = DOMAIN helper
    OBVIOUS
  <1> HIDE DEF new
  <1>3. new \in Seq({new[j] : j \in DOMAIN new}) /\ \A j \in DOMAIN new : HelperType(new[j], Token)
    BY <1>1, HelpersTyped
  <1> QED BY <1>2, <1>3 DEF HelpersTypedNow, new

LEMMA FinishTyped ==
    ASSUME TypeOK, NEW i \in DOMAIN helper, NEW ok \in BOOLEAN, Finish(i, ok)
    PROVE  HelpersTypedNow
  <1> DEFINE done == [Gone EXCEPT !.at = "done", !.ok = ok]
  <1>1. helper' = [helper EXCEPT ![i] = done] \/ helper' = [helper EXCEPT ![i] = Gone]
    BY DEF Finish
  <1>2. HelperType(done, Token) /\ HelperType(Gone, Token)
    BY GoneTyped
  <1> HIDE DEF done
  <1> QED BY <1>1, <1>2, OneTyped

LEMMA HelperStepTyped ==
    ASSUME TypeOK, NEW i \in DOMAIN helper, HelperStep(i)
    PROVE  HelpersTypedNow /\ FilesType(inst', Copied, Token) /\ GatewayType(gw', Token)
  <1> DEFINE v == helper[i]
  <1>1. HelperType(v, Token) /\ FilesType(inst, Copied, Token) /\ GatewayType(gw, Token)
        /\ FilesType(file, Files, Token)
    BY DEF TypeOK, GatewayType
  <1>2. CASE ReadSource(i)
    <2>1. PICK f \in v.todo : helper' = [helper EXCEPT ![i] =
            [v EXCEPT !.at = "truncate", !.todo = @ \ {f}, !.name = f, !.text = file[f]]]
      BY <1>2 DEF ReadSource
    <2> DEFINE u == [v EXCEPT !.at = "truncate", !.todo = @ \ {f}, !.name = f, !.text = file[f]]
    <2>2. /\ DOMAIN u = DOMAIN Gone /\ u.at = "truncate" /\ u.todo = v.todo \ {f} /\ u.name = f
          /\ u.text = file[f] /\ u.svc = v.svc /\ u.ok = v.ok
      BY <1>1 DEF HelperType, Gone
    <2> HIDE DEF u
    <2>3. f \in Copied /\ file[f] \in TypeOf(f, Token)
      BY <1>1 DEF HelperType, FilesType, Files, Copied
    <2>4. HelperType(u, Token)
      BY <1>1, <2>2, <2>3 DEF HelperType
    <2>5. HelpersTypedNow
      BY <2>1, <2>4, OneTyped DEF u
    <2>6. inst' = inst /\ gw' = gw
      BY <1>2 DEF ReadSource
    <2> QED BY <1>1, <2>5, <2>6
  <1>3. CASE TruncateInstalled(i)
    <2> DEFINE u == [v EXCEPT !.at = "fill"]
    <2>1. helper' = [helper EXCEPT ![i] = u] /\ inst' = [inst EXCEPT ![v.name] = Empty[v.name]] /\ gw' = gw
      BY <1>3 DEF TruncateInstalled
    <2>2. HelperType(u, Token)
      BY <1>1 DEF HelperType, Gone
    <2>3. v.name \in Copied /\ Empty[v.name] \in TypeOf(v.name, Token)
      BY <1>1, EmptyTyped DEF HelperType, Copied, Files
    <2> HIDE DEF u, v
    <2>4. FilesType(inst', Copied, Token)
      BY <1>1, <2>1, <2>3 DEF FilesType
    <2>5. HelpersTypedNow
      BY <2>1, <2>2, OneTyped
    <2> QED BY <1>1, <2>1, <2>4, <2>5
  <1>4. CASE FillInstalled(i)
    <2> DEFINE u == [v EXCEPT !.at = "copy", !.text = Nil, !.name = "config"]
    <2>1. helper' = [helper EXCEPT ![i] = u] /\ inst' = [inst EXCEPT ![v.name] = v.text] /\ gw' = gw
      BY <1>4 DEF FillInstalled
    <2>2. /\ DOMAIN u = DOMAIN Gone /\ u.at = "copy" /\ u.todo = v.todo /\ u.name = "config"
          /\ u.text = Nil /\ u.svc = v.svc /\ u.ok = v.ok
      BY <1>1 DEF HelperType, Gone
    <2> HIDE DEF u
    <2>3. Nil \in TypeOf("config", Token) /\ v.name \in Copied /\ v.text \in TypeOf(v.name, Token)
      BY <1>1, TypesAre DEF HelperType
    <2>4. HelperType(u, Token)
      BY <1>1, <2>2, <2>3 DEF HelperType, Copied
    <2> HIDE DEF v
    <2>5. FilesType(inst', Copied, Token)
      BY <1>1, <2>1, <2>3 DEF FilesType
    <2>6. HelpersTypedNow
      BY <2>1, <2>4, OneTyped
    <2> QED BY <1>1, <2>1, <2>5, <2>6
  <1>5. CASE FilesCopied(i)
    <2>1. inst' = inst /\ gw' = gw
      BY <1>5 DEF FilesCopied
    <2>2. CASE Finish(i, TRUE)
      BY <1>1, <2>1, <2>2, FinishTyped
    <2>3. CASE helper' = [helper EXCEPT ![i] = [v EXCEPT !.at = "service"]]
      <3> DEFINE u == [v EXCEPT !.at = "service"]
      <3>1. HelperType(u, Token)
        BY <1>1 DEF HelperType, Gone
      <3> HIDE DEF u
      <3>2. HelpersTypedNow
        BY <2>3, <3>1, OneTyped DEF u
      <3> QED BY <1>1, <2>1, <3>2
    <2> QED BY <1>5, <2>2, <2>3 DEF FilesCopied
  <1>6. CASE ControlService(i)
    <2>1. inst' = inst /\ (gw' = gw \/ gw' = Down \/ gw' = Started)
      BY <1>6 DEF ControlService
    <2>2. \E ok \in BOOLEAN : Finish(i, ok)
      BY <1>6 DEF ControlService
    <2>3. GatewayType(Started, Token) /\ GatewayType(Down, Token)
      BY <1>1 DEF Started, GatewayType
    <2>4. HelpersTypedNow
      BY <2>2, FinishTyped
    <2> QED BY <1>1, <2>1, <2>3, <2>4
  <1>7. CASE HelperFails(i)
    <2>1. inst' = inst /\ (gw' = gw \/ gw' = Down) /\ Finish(i, FALSE)
      BY <1>7 DEF HelperFails
    <2>2. HelpersTypedNow
      BY <2>1, FinishTyped
    <2> QED BY <1>1, <2>1, <2>2 DEF GatewayType
  <1> QED BY <1>2, <1>3, <1>4, <1>5, <1>6, <1>7 DEF HelperStep

\* The helper that a handler starts copies the pair and maybe restarts the
\* service, or does what was asked of the service.
LEMMA StartedTyped ==
    ASSUME TypeOK, NEW h \in Handler, StartHelper(h)
    PROVE  HelpersTypedNow
  <1> DEFINE copier(svc) == [Gone EXCEPT !.at = "copy", !.todo = Copied, !.svc = svc]
             server(svc) == [Gone EXCEPT !.at = "service", !.svc = svc]
             e == req[h].edit
  <1>1. \A svc \in {"none", "start", "stop", "restart"} :
           HelperType(copier(svc), Token) /\ HelperType(server(svc), Token)
    <2>1. Nil \in TypeOf("config", Token)
      BY TypesAre
    <2> QED BY <2>1 DEF HelperType, Gone, Copied
  <1>2. At(h, "service") /\ e.kind = "service" => e.svc \in {"start", "stop", "restart"}
    <2>1. At(h, "service") => e \in Order
      BY DEF TypeOK, HandlerType, At
    <2>2. Order \subseteq OrderType
      BY TypeAssumption
    <2> QED BY <2>1, <2>2 DEF OrderType
  <1>3. \/ \E svc \in {"none", "restart"} : helper' = Append(helper, copier(svc))
        \/ \E svc \in {"start", "stop", "restart"} : helper' = Append(helper, server(svc))
    <2>1. CASE At(h, "publish") /\ helper' = Append(helper, copier(IF RestartAsked(e) THEN "restart" ELSE "none"))
      BY <2>1
    <2>2. CASE At(h, "service") /\ helper' = Append(helper, server(IF e.kind = "service" THEN e.svc ELSE "restart"))
      BY <1>2, <2>2
    <2> QED BY <2>1, <2>2 DEF StartHelper
  <1> HIDE DEF copier, server
  <1>4. \E u : HelperType(u, Token) /\ helper' = Append(helper, u)
    BY <1>1, <1>3
  <1> QED BY <1>4, StartTyped DEF HelpersTypedNow

\* The parts of TypeOK that a step of a handler or of a helper may disturb.
LEMMA TypeParts ==
    ASSUME made' \in Seq(Party \cup {Nil}), FilesType(file', Files, Token'), FilesType(inst', Copied, Token'),
           held' \in Token' \cup {Nil}, asked' \in 0..MaxRequest, elevated' \in BOOLEAN,
           DOMAIN req' = Handler, \A k \in Handler : HandlerType(req'[k], Token'),
           \A k \in Handler : req'[k].at = "wait" => req'[k].helper \in DOMAIN helper',
           helper' \in Seq({helper'[i] : i \in DOMAIN helper'}),
           \A i \in DOMAIN helper' : HelperType(helper'[i], Token'),
           GatewayType(gw', Token')
    PROVE  TypeOK'
  BY DEF TypeOK, GatewayType, At

LEMMA InitTypes == ASSUME Init PROVE TypeOK
  <1>1. /\ file = [config |-> FirstConfig, ops |-> FirstOps, keys |-> FirstKeys] /\ made = FirstMade
        /\ held = Nil /\ req = [h \in Handler |-> Idle] /\ asked = 0
        /\ inst = [config |-> FirstConfig, ops |-> FirstOps] /\ gw = inst
        /\ elevated \in BOOLEAN /\ helper = << >>
    BY DEF Init, EditInit
  <1>2. /\ FirstConfig \in TypeOf("config", Token) /\ FirstOps \in TypeOf("ops", Token) /\ Loads(FirstConfig)
        /\ MaxRequest \in Nat
    BY <1>1, TypeAssumption DEF Token
  <1>3. FirstKeys \in TypeOf("keys", Token) /\ FirstMade \in Seq(Party \cup {Nil})
    BY <1>1, KeysAssumption, EditAssumption, TypesAre DEF Token
  <1>4. FilesType(file, Files, Token) /\ FilesType(inst, Copied, Token)
    BY <1>1, <1>2, <1>3 DEF FilesType, Files, Copied
  <1>5. \A h \in Handler : req[h] = Idle /\ HandlerType(req[h], Token) /\ req[h].at # "wait"
    BY <1>1, IdleTyped DEF Idle
  <1>6. helper \in Seq({helper[i] : i \in DOMAIN helper}) /\ DOMAIN helper = {}
    BY <1>1
  <1>7. FilesType(gw, Copied, Token) /\ Loads(gw.config)
    BY <1>1, <1>2, <1>4
  <1> QED BY <1>1, <1>2, <1>3, <1>4, <1>5, <1>6, <1>7 DEF TypeOK, GatewayType, At

LEMMA TypeStep == TypeOK /\ [Next]_vars => TypeOK'
  <1> SUFFICES ASSUME TypeOK, [Next]_vars PROVE TypeOK'
    OBVIOUS
  <1>0. /\ made \in Seq(Party \cup {Nil}) /\ FilesType(file, Files, Token) /\ FilesType(inst, Copied, Token)
        /\ held \in Token \cup {Nil} /\ asked \in 0..MaxRequest /\ elevated \in BOOLEAN
        /\ DOMAIN req = Handler /\ (\A h \in Handler : HandlerType(req[h], Token))
        /\ (\A h \in Handler : req[h].at = "wait" => req[h].helper \in DOMAIN helper)
        /\ helper \in Seq({helper[i] : i \in DOMAIN helper})
        /\ (\A i \in DOMAIN helper : HelperType(helper[i], Token))
        /\ GatewayType(gw, Token)
    BY DEF TypeOK, GatewayType, At
  <1>1. ASSUME NEW h \in Handler, (OpenConfig(h) /\ UNCHANGED pubVars) \/ ReceiveOrder(h) \/ UseAdminToken(h)
        PROVE  TypeOK'
    <2>1. /\ UNCHANGED <<made, file, inst, elevated, helper, gw>> /\ asked' = asked + 1 /\ asked < MaxRequest
          /\ \E r : Typed(h, r)
      BY <1>1, ReceiveTyped DEF OpenConfig, ReceiveOrder, UseAdminToken, Receive, pubVars
    <2>2. Token' = Token
      BY <2>1 DEF Token
    <2>3. asked' \in 0..MaxRequest
      BY <1>0, <2>1, TypeAssumption
    <2>4. held' \in Token \cup {Nil}
      <3>1. CASE UseAdminToken(h)
        <4>1. held' = inst.config.admin /\ inst.config # Nil
          BY <3>1 DEF UseAdminToken
        <4>2. inst.config \in TypeOf("config", Token)
          BY <1>0 DEF FilesType, Copied
        <4> QED BY <4>1, <4>2, TypesAre
      <3>2. CASE OpenConfig(h) \/ ReceiveOrder(h)
        BY <1>0, <3>2 DEF OpenConfig, ReceiveOrder
      <3> QED BY <1>1, <3>1, <3>2
    <2>5. /\ DOMAIN req' = Handler /\ \A k \in Handler : HandlerType(req'[k], Token')
          /\ \A k \in Handler : req'[k].at = "wait" => req'[k].helper \in DOMAIN helper'
      BY <2>1, <2>2, HandlersTyped
    <2> QED BY <1>0, <2>1, <2>2, <2>3, <2>4, <2>5, TypeParts
  <1>2. ASSUME NEW h \in Handler, EditStep(h), UNCHANGED pubVars PROVE TypeOK'
    <2>1. /\ \E r : Typed(h, r)
          /\ FilesType(file', Files, Token') /\ held' \in Token' \cup {Nil} /\ asked' \in 0..MaxRequest
          /\ Token \subseteq Token' /\ made' \in Seq(Party \cup {Nil})
      BY <1>2, EditStepTyped
    <2>2. UNCHANGED <<inst, gw, elevated, helper>>
      BY <1>2 DEF pubVars
    <2>3. /\ DOMAIN req' = Handler /\ \A k \in Handler : HandlerType(req'[k], Token')
          /\ \A k \in Handler : req'[k].at = "wait" => req'[k].helper \in DOMAIN helper'
      BY <2>1, <2>2, HandlersTyped
    <2>4. FilesType(inst', Copied, Token') /\ GatewayType(gw', Token')
      BY <1>0, <2>1, <2>2, TypesGrow DEF GatewayType, Copied, Files
    <2>5. \A i \in DOMAIN helper' : HelperType(helper'[i], Token')
      BY <1>0, <2>1, <2>2, TypesGrow
    <2> QED BY <1>0, <2>1, <2>2, <2>3, <2>4, <2>5, TypeParts
  <1>3. ASSUME NEW h \in Handler, PublishStep(h) PROVE TypeOK'
    <2>1. UNCHANGED <<made, file, held, asked, inst, elevated>> /\ \E r : Typed(h, r)
      BY <1>3, PublishTyped DEF PublishStep, StartHelper, Declined, TakeResult, WaitNoLonger, Reload, pubVars
    <2>2. Token' = Token
      BY <2>1 DEF Token
    <2>3. GatewayType(gw', Token)
      <3>1. CASE Reload(h) /\ Reloads
        BY <1>0, <3>1 DEF Reload, Reloads, GatewayType
      <3>2. CASE ~ (Reload(h) /\ Reloads)
        <4>1. gw' = gw
          BY <1>3, <3>2 DEF PublishStep, StartHelper, Declined, TakeResult, WaitNoLonger, Reload, pubVars
        <4> QED BY <1>0, <4>1
      <3> QED BY <3>1, <3>2
    <2>4. HelpersTypedNow
      <3>1. CASE TakeResult(h)
        <4>1. req[h].helper \in DOMAIN helper /\ helper' = [helper EXCEPT ![req[h].helper] = Gone]
          BY <1>0, <3>1 DEF TakeResult, At
        <4> QED BY <4>1, GoneTyped, OneTyped
      <3>2. CASE Declined(h) \/ WaitNoLonger(h) \/ Reload(h)
        BY <1>0, <3>2 DEF Declined, WaitNoLonger, Reload, pubVars, HelpersTypedNow
      <3> QED BY <1>3, <3>1, <3>2, StartedTyped DEF PublishStep
    <2>5. /\ DOMAIN req' = Handler /\ \A k \in Handler : HandlerType(req'[k], Token')
          /\ \A k \in Handler : req'[k].at = "wait" => req'[k].helper \in DOMAIN helper'
      BY <2>1, <2>2, <2>4, HandlersTyped DEF HelpersTypedNow
    <2> QED BY <1>0, <2>1, <2>2, <2>3, <2>4, <2>5, TypeParts DEF HelpersTypedNow
  <1>4. ASSUME NEW i \in DOMAIN helper, HelperStep(i) PROVE TypeOK'
    <2>1. UNCHANGED <<editVars, elevated>>
      BY <1>4 DEF HelperStep, ReadSource, TruncateInstalled, FillInstalled, FilesCopied, ControlService,
                  HelperFails, HelperAt
    <2>2. HelpersTypedNow /\ FilesType(inst', Copied, Token) /\ GatewayType(gw', Token)
      BY <1>4, HelperStepTyped
    <2>3. UNCHANGED <<made, file, held, asked, req, elevated>>
      BY <2>1 DEF editVars
    <2>4. Token' = Token
      BY <2>3 DEF Token
    <2>5. \A k \in Handler : req'[k].at = "wait" => req'[k].helper \in DOMAIN helper'
      BY <1>0, <2>2, <2>3 DEF HelpersTypedNow
    <2> QED BY <1>0, <2>2, <2>3, <2>4, <2>5, TypeParts DEF HelpersTypedNow
  <1>5. CASE Exit
    <2> DEFINE new == helper'
    <2>1. /\ UNCHANGED <<made, file, asked, inst, gw, elevated>> /\ held' = Nil
          /\ req' = [h \in Handler |-> Idle]
      BY <1>5 DEF Exit
    <2>2. Token' = Token
      BY <2>1 DEF Token
    <2>3. /\ new = [i \in DOMAIN helper |-> new[i]]
          /\ \A i \in DOMAIN helper : new[i] = helper[i] \/ HelperType(new[i], Token)
      BY <1>5, GoneTyped DEF Exit
    <2> HIDE DEF new
    <2>4. new \in Seq({new[i] : i \in DOMAIN new}) /\ \A i \in DOMAIN new : HelperType(new[i], Token)
      BY <2>3, HelpersTyped
    <2>5. /\ DOMAIN req' = Handler /\ \A k \in Handler : HandlerType(req'[k], Token) /\ req'[k].at # "wait"
      BY <2>1, IdleTyped DEF Idle
    <2> QED BY <1>0, <2>1, <2>2, <2>4, <2>5, TypeParts DEF new
  <1>6. CASE UNCHANGED vars
    BY <1>0, <1>6, TypeParts DEF vars, editVars, pubVars, Token
  <1> QED BY <1>1, <1>2, <1>3, <1>4, <1>5, <1>6 DEF Next

\* Every variable keeps its type: the files only name tokens that are in being,
\* a handler that has a token has taken it for an edit that takes one or has its
\* block at hand, and a handler that waits for a helper waits for one there is.
THEOREM DesktopTypeCorrect == Spec => []TypeOK
  BY InitTypes, TypeStep, PTL DEF Spec
=============================================================================
