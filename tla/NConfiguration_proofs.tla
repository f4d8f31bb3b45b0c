------------------------- MODULE NConfiguration_proofs -------------------------
(***************************************************************************)
(* Proofs about NConfiguration, for every set of directories, every length *)
(* of their texts, every set of web threads and every bound.               *)
(***************************************************************************)
EXTENDS NConfiguration, TLAPS

-----------------------------------------------------------------------------
(* Types.                                                                  *)

\* Init makes the variables well typed.
LEMMA InitType == Init => TypeOK
<1> SUFFICES ASSUME Init PROVE TypeOK
  OBVIOUS
<1>1. disk \in Contents
  BY DEF Init, Contents
<1>2. /\ pc \in [WebThreads -> {"idle", "open", "write"}]
      /\ \A t \in WebThreads : pc[t] # "write"
      /\ value \in [WebThreads -> Dirs]
  BY DefaultDirAssumption DEF Init
<1>3. raced \in BOOLEAN /\ torn \in BOOLEAN /\ unsaved \in BOOLEAN
  BY DEF Init
<1> QED
  BY <1>1, <1>2, <1>3, DefaultDirAssumption, BoundsAssumption DEF Init, TypeOK

\* What a truncated or a written file holds is a content that is not NoFile.
LEMMA FileContents ==
    /\ Truncated \in Contents /\ Truncated # NoFile
    /\ Truncated.length = 0 /\ Truncated.text \in Dirs
    /\ \A d \in Dirs, n \in Nat :
        [text |-> d, length |-> n] \in Contents /\ [text |-> d, length |-> n] # NoFile
BY DefaultDirAssumption, NoFileAssumption DEF Truncated, Contents

\* Every step keeps the variables well typed.
LEMMA NextType == TypeOK /\ [Next]_vars => TypeOK'
<1> SUFFICES ASSUME TypeOK, [Next]_vars PROVE TypeOK'
  OBVIOUS
<1> USE DefaultDirAssumption, SizeAssumption, BoundsAssumption, FileContents
<1>1. CASE Start
  BY <1>1 DEF Start, TypeOK, threadVars, boundVars, history
<1>2. CASE ReadConf
  BY <1>2 DEF ReadConf, Restore, TypeOK, threadVars, boundVars
<1>3. CASE ReadNothing
  BY <1>3 DEF ReadNothing, TypeOK, threadVars, boundVars, history
<1>4. CASE ReadUnopened
  BY <1>4 DEF ReadUnopened, TypeOK, threadVars
<1>5. CASE ReadFails
  BY <1>5 DEF ReadFails, TypeOK, threadVars, boundVars, history
<1>6. CASE Create
  BY <1>6 DEF Create, TypeOK, threadVars, boundVars, history
<1>7. CASE WriteDefault
  BY <1>7 DEF WriteDefault, TypeOK, threadVars, boundVars
<1>8. CASE CreateFails
  BY <1>8 DEF CreateFails, TypeOK, threadVars
<1>9. CASE Kill
  BY <1>9 DEF Kill, TypeOK
<1>10. ASSUME NEW t \in WebThreads, NEW d \in Dirs, SaveConfiguration(t, d) PROVE TypeOK'
  BY <1>10 DEF SaveConfiguration, BeginSave, TypeOK
<1>11. ASSUME NEW t \in WebThreads, OpenFile(t) PROVE TypeOK'
  BY <1>11 DEF OpenFile, Opened, TypeOK, boundVars
<1>12. ASSUME NEW t \in WebThreads, WriteFile(t) PROVE TypeOK'
  <2>1. disk \in [text : Dirs, length : Nat] /\ value[t] \in Dirs
    BY <1>12 DEF WriteFile, Written, TypeOK, Contents
  <2>2. PICK n \in Nat : disk' = [text |-> value[t], length |-> n]
    BY <1>12, <2>1 DEF WriteFile, Written
  <2>3. disk' \in Contents /\ disk' # NoFile
    BY <2>1, <2>2
  <2> HIDE DEF Contents
  <2> QED
    BY <1>12, <2>1, <2>3 DEF WriteFile, Written, TypeOK, boundVars
<1>13. ASSUME NEW t \in WebThreads, SaveFails(t) PROVE TypeOK'
  BY <1>13 DEF SaveFails, TypeOK
<1>14. CASE UNCHANGED vars
  BY <1>14 DEF vars, threadVars, boundVars, history, TypeOK
<1>15. CASE ReadBreaks
  BY <1>15 DEF ReadBreaks, TypeOK, threadVars, history
<1> QED
  BY <1>1, <1>2, <1>3, <1>4, <1>5, <1>6, <1>7, <1>8, <1>9, <1>10, <1>11, <1>12, <1>13,
     <1>14, <1>15 DEF Next, Boot, Save

\* The variables of every behaviour are well typed, and a thread that writes has a file.
THEOREM TypeCorrect == Spec => []TypeOK
BY InitType, NextType, PTL DEF Spec

-----------------------------------------------------------------------------
(* Which saves are under way, and what the file holds meanwhile.           *)

AllIdle == \A t \in WebThreads : pc[t] = "idle"

\* Nothing is saved by a server that does not run, or that has no setting.
StoppedIsIdle == status # "up" \/ conf = NoConf => AllIdle

\* A save that meets no other one is the only one, and its value is the one in use.
OneSaver ==
    ~raced => \A t \in WebThreads : pc[t] # "idle" =>
        /\ conf = value[t]
        /\ \A u \in WebThreads \ {t} : pc[u] = "idle"

\* Without a race the file is empty or one text, and empty while it is written.
OneText ==
    /\ ~raced /\ disk # NoFile => disk.length \in {0, Size[disk.text]}
    /\ ~raced => \A t \in WebThreads : pc[t] = "write" => disk.length = 0

\* An empty file is about to be written, or its text was lost.
EmptyIsTorn ==
    IsEmpty => torn \/ status = "creating" \/ \E t \in WebThreads : pc[t] = "write"

\* A text in the file, garbled or not, begins with the last one that was written.
TextIsLatest == disk # NoFile /\ disk.length # 0 => disk.text = latest

IInv ==
    /\ TypeOK
    /\ StoppedIsIdle /\ OneSaver /\ OneText /\ EmptyIsTorn /\ TextIsLatest
    /\ StartFailsOnlyAfterRace /\ NullOnlyAfterTear /\ DiskFollowsMemory

-----------------------------------------------------------------------------
(* The invariant.                                                          *)

\* The initial states satisfy it: nothing runs, and there is no file.
LEMMA InitInv == Init => IInv
<1> SUFFICES ASSUME Init PROVE IInv
  OBVIOUS
<1>1. AllIdle
  BY DEF Init, AllIdle
<1> QED
  BY <1>1, InitType DEF Init, IInv, AllIdle, StoppedIsIdle, OneSaver, OneText, EmptyIsTorn, IsEmpty,
     TextIsLatest, StartFailsOnlyAfterRace, NullOnlyAfterTear, DiskFollowsMemory

\* A file that is there has a text and a length.
LEMMA FileFacts ==
    ASSUME TypeOK, disk # NoFile
    PROVE  /\ disk.text \in Dirs /\ disk.length \in Nat
           /\ Size[disk.text] \in Nat \ {0}
           /\ \A d \in Dirs : Holds(d) <=> disk.text = d /\ disk.length = Size[d]
<1>1. disk \in [text : Dirs, length : Nat]
  BY DEF TypeOK, Contents
<1>2. \A d \in Dirs : Size[d] \in Nat \ {0}
  BY SizeAssumption
<1> QED
  BY <1>1, <1>2 DEF Holds

\* The steps of a server that is starting.
LEMMA BootInv == IInv /\ Boot => IInv'
<1> SUFFICES ASSUME IInv, Boot PROVE IInv'
  OBVIOUS
<1>1. TypeOK /\ TypeOK'
  BY NextType DEF IInv, Next
<1>2. status # "up" /\ AllIdle /\ pc' = pc /\ value' = value
  BY DEF IInv, StoppedIsIdle, Boot, Start, ReadConf, Restore, ReadNothing, ReadUnopened,
     ReadFails, ReadBreaks, Create, WriteDefault, CreateFails, threadVars
<1>3. StoppedIsIdle' /\ OneSaver'
  BY <1>2 DEF StoppedIsIdle, OneSaver, AllIdle
<1>4. /\ Truncated # NoFile /\ Truncated.length = 0
      /\ \A d \in Dirs, n \in Nat : [text |-> d, length |-> n] # NoFile
  BY FileContents
<1>5. Size[DefaultDir] \in Nat \ {0} /\ DefaultDir # NoConf
  BY DefaultDirAssumption, SizeAssumption, NoConfAssumption
<1> DEFINE Rest == OneText /\ EmptyIsTorn /\ TextIsLatest
                     /\ StartFailsOnlyAfterRace /\ NullOnlyAfterTear /\ DiskFollowsMemory
<1> USE DEF IInv, OneText, EmptyIsTorn, IsEmpty, TextIsLatest, StartFailsOnlyAfterRace,
            NullOnlyAfterTear, DiskFollowsMemory, Holds, AllIdle
<1>6. ASSUME Start PROVE Rest'
  BY <1>2, <1>6 DEF Start, threadVars, boundVars, history
<1>7. ASSUME ReadConf PROVE Rest'
  <2>1. PICK d \in Dirs : Restore(d, d)
    BY <1>7 DEF ReadConf
  <2>2. conf' # NoConf
    BY <2>1, NoConfAssumption DEF Restore
  <2> QED
    BY <1>2, <2>1, <2>2 DEF Restore, threadVars, boundVars
<1>8. ASSUME ReadNothing PROVE Rest'
  BY <1>2, <1>8 DEF ReadNothing, threadVars, boundVars, history
<1>9. ASSUME ReadUnopened PROVE Rest'
  BY <1>1, <1>2, <1>9 DEF ReadUnopened, threadVars, TypeOK
<1>10. ASSUME ReadFails PROVE Rest'
  BY <1>1, <1>2, <1>10, FileFacts DEF ReadFails, IsGarbled, threadVars, boundVars, history
<1>11. ASSUME Create PROVE Rest'
  BY <1>2, <1>4, <1>11 DEF Create, threadVars, boundVars, history
<1>12. ASSUME WriteDefault PROVE Rest'
  <2>1. /\ disk' = [text |-> DefaultDir, length |-> Size[DefaultDir]]
        /\ latest' = DefaultDir /\ conf' = DefaultDir /\ status' = "up" /\ raced' = raced
    BY <1>12 DEF WriteDefault
  <2>2. disk'.text = DefaultDir /\ disk'.length = Size[DefaultDir] /\ disk'.length # 0
    BY <2>1, <1>5
  <2> QED
    BY <1>2, <1>4, <1>5, <2>1, <2>2, DefaultDirAssumption
<1>13. ASSUME CreateFails PROVE Rest'
  BY <1>2, <1>5, <1>13 DEF CreateFails, threadVars
<1>14. ASSUME ReadBreaks PROVE Rest'
  BY <1>1, <1>2, <1>14 DEF ReadBreaks, threadVars, history, TypeOK
<1> QED
  BY <1>1, <1>3, <1>6, <1>7, <1>8, <1>9, <1>10, <1>11, <1>12, <1>13, <1>14 DEF Boot

\* The steps of a web thread.
LEMMA SaveInv ==
    ASSUME IInv, TypeOK', NEW t \in WebThreads,
           Save(t) \/ \E d \in Dirs : SaveConfiguration(t, d)
    PROVE  IInv'
<1> USE DEF IInv
<1>1. pc \in [WebThreads -> {"idle", "open", "write"}] /\ value \in [WebThreads -> Dirs]
  BY DEF TypeOK
<1>2. /\ Truncated # NoFile /\ Truncated.length = 0
      /\ \A d \in Dirs, n \in Nat : [text |-> d, length |-> n] # NoFile
  BY FileContents
<1>3. status = "up" /\ status' = "up"
  BY DEF StoppedIsIdle, AllIdle, Save, OpenFile, Opened, WriteFile, Written, SaveFails,
     SaveConfiguration, BeginSave
<1>4. StartFailsOnlyAfterRace'
  BY <1>3 DEF StartFailsOnlyAfterRace
<1> USE DEF StoppedIsIdle, AllIdle, OneSaver, OneText, EmptyIsTorn, IsEmpty, TextIsLatest,
            NullOnlyAfterTear, DiskFollowsMemory, Holds
<1>5. ASSUME NEW d \in Dirs, SaveConfiguration(t, d) PROVE IInv'
  <2>1. /\ pc[t] = "idle" /\ pc' = [pc EXCEPT ![t] = "open"]
        /\ value' = [value EXCEPT ![t] = d] /\ conf' = d /\ conf' # NoConf
        /\ raced' = (raced \/ \E u \in WebThreads : pc[u] # "idle")
        /\ disk' = disk /\ latest' = latest /\ torn' = torn
    BY <1>5, NoConfAssumption DEF SaveConfiguration, BeginSave
  <2>2. pc'[t] = "open" /\ value'[t] = d /\ \A u \in WebThreads \ {t} : pc'[u] = pc[u]
    BY <1>1, <2>1
  <2>3. StoppedIsIdle' /\ NullOnlyAfterTear' /\ DiskFollowsMemory'
    BY <1>3, <2>1, <2>2
  <2>4. OneSaver'
    BY <2>1, <2>2
  <2>5. OneText' /\ EmptyIsTorn' /\ TextIsLatest'
    BY <1>3, <2>1, <2>2
  <2> QED
    BY <1>4, <2>3, <2>4, <2>5
<1>6. ASSUME OpenFile(t) PROVE IInv'
  <2>1. /\ pc[t] = "open" /\ pc' = [pc EXCEPT ![t] = "write"]
        /\ disk' = Truncated /\ conf' = conf /\ value' = value
        /\ raced' = (raced /\ (conf # value[t] \/ \E u \in WebThreads \ {t} : pc[u] # "idle"))
    BY <1>6 DEF OpenFile, Opened
  <2>2. pc'[t] = "write" /\ \A u \in WebThreads \ {t} : pc'[u] = pc[u]
    BY <1>1, <2>1
  <2>3. conf # NoConf
    BY <2>1
  <2>4. StoppedIsIdle' /\ NullOnlyAfterTear' /\ DiskFollowsMemory'
    BY <1>3, <2>1, <2>2, <2>3
  <2>5. OneSaver'
    BY <2>1, <2>2
  <2>6. OneText' /\ EmptyIsTorn' /\ TextIsLatest'
    BY <1>2, <2>1, <2>2
  <2> QED
    BY <1>4, <2>4, <2>5, <2>6
<1>7. ASSUME WriteFile(t) PROVE IInv'
  <2> DEFINE size == Size[value[t]]
             length == IF disk.length > size THEN disk.length ELSE size
  <2>1. /\ pc[t] = "write" /\ pc' = [pc EXCEPT ![t] = "idle"]
        /\ disk' = [text |-> value[t], length |-> length]
        /\ conf' = conf /\ value' = value /\ raced' = raced
        /\ latest' = value[t]
    BY <1>7 DEF WriteFile, Written
  <2>2. pc'[t] = "idle" /\ \A u \in WebThreads \ {t} : pc'[u] = pc[u]
    BY <1>1, <2>1
  <2>3. disk # NoFile /\ conf # NoConf
    BY <2>1 DEF TypeOK
  <2>4. size \in Nat \ {0} /\ disk.length \in Nat
    BY <1>1, <2>3, FileFacts, SizeAssumption
  <2>5. disk'.text = value[t] /\ disk'.length = length /\ length # 0 /\ disk' # NoFile
    BY <1>1, <1>2, <2>1, <2>4
  <2>6. ASSUME ~raced PROVE conf = value[t] /\ length = size
    BY <2>1, <2>3, <2>4, <2>6
  <2>7. StoppedIsIdle' /\ NullOnlyAfterTear'
    BY <1>3, <2>1, <2>2, <2>3
  <2>8. OneSaver'
    BY <2>1, <2>2
  <2>9. OneText' /\ EmptyIsTorn' /\ TextIsLatest'
    BY <2>1, <2>2, <2>5, <2>6
  <2>10. DiskFollowsMemory'
    BY <2>1, <2>5, <2>6
  <2> QED
    BY <1>4, <2>7, <2>8, <2>9, <2>10
<1>8. ASSUME SaveFails(t) PROVE IInv'
  <2>1. /\ pc[t] # "idle" /\ pc' = [pc EXCEPT ![t] = "idle"] /\ unsaved' = TRUE
        /\ torn' = (torn \/ pc[t] = "write")
        /\ disk' = disk /\ latest' = latest /\ conf' = conf /\ value' = value /\ raced' = raced
    BY <1>8 DEF SaveFails
  <2>2. pc'[t] = "idle" /\ \A u \in WebThreads \ {t} : pc'[u] = pc[u]
    BY <1>1, <2>1
  <2>3. conf # NoConf
    BY <2>1
  <2>4. StoppedIsIdle' /\ NullOnlyAfterTear' /\ DiskFollowsMemory'
    BY <1>3, <2>1, <2>2, <2>3
  <2>5. OneSaver'
    BY <2>1, <2>2
  <2>6. OneText' /\ EmptyIsTorn' /\ TextIsLatest'
    BY <1>3, <2>1, <2>2
  <2> QED
    BY <1>4, <2>4, <2>5, <2>6
<1> QED
  BY <1>5, <1>6, <1>7, <1>8 DEF Save

\* The end of the process: a text that was to come does not come.
LEMMA KillInv == IInv /\ Kill => IInv'
<1> SUFFICES ASSUME IInv, Kill PROVE IInv'
  OBVIOUS
<1> USE DEF IInv
<1>1. TypeOK'
  BY NextType DEF Next
<1>2. AllIdle'
  BY DEF AllIdle, Kill
<1>3. StoppedIsIdle' /\ OneSaver'
  BY <1>2 DEF StoppedIsIdle, OneSaver, AllIdle
<1>4. OneText' /\ TextIsLatest'
  BY <1>2 DEF Kill, OneText, TextIsLatest, AllIdle
<1>5. EmptyIsTorn'
  BY DEF Kill, EmptyIsTorn, IsEmpty
<1>6. StartFailsOnlyAfterRace' /\ NullOnlyAfterTear' /\ DiskFollowsMemory'
  BY DEF Kill, StartFailsOnlyAfterRace, NullOnlyAfterTear, DiskFollowsMemory
<1> QED
  BY <1>1, <1>3, <1>4, <1>5, <1>6

\* The invariant is inductive.
LEMMA NextInv == IInv /\ [Next]_vars => IInv'
<1> SUFFICES ASSUME IInv, [Next]_vars PROVE IInv'
  OBVIOUS
<1>1. TypeOK'
  BY NextType DEF IInv
<1>2. CASE UNCHANGED vars
  BY <1>1, <1>2 DEF IInv, vars, threadVars, boundVars, history, StoppedIsIdle, AllIdle, OneSaver,
     OneText, EmptyIsTorn, IsEmpty, TextIsLatest, StartFailsOnlyAfterRace, NullOnlyAfterTear,
     DiskFollowsMemory, Holds
<1> QED
  BY <1>1, <1>2, BootInv, SaveInv, KillInv DEF Next

\* The invariant holds in every state of every behaviour.
LEMMA Invariant == Spec => []IInv
BY InitInv, NextInv, PTL DEF Spec

-----------------------------------------------------------------------------
(* The results.                                                            *)

\* Only the race of two saves can leave a file on which a later start fails, however
\* many threads save whatever texts and whenever the process is killed.
THEOREM OnlyRacesStopAStart == Spec => []StartFailsOnlyAfterRace
BY Invariant, PTL DEF IInv

\* The server has no setting only after a text was lost or a file could not be read.
THEOREM OnlyTearsLoseTheSetting == Spec => []NullOnlyAfterTear
BY Invariant, PTL DEF IInv

\* When no save is under way, file and field agree, unless the last saves raced or a
\* write has failed since.
THEOREM FileAgreesWithField == Spec => []DiskFollowsMemory
BY Invariant, PTL DEF IInv

\* A start that reads the file restores the last setting that was written, unless the
\* last saves raced or a text was lost.
THEOREM StartRestores == Spec => RestartRestores
<1> DEFINE Restores == status = "reading" /\ status' = "up" /\ errors' = errors /\ ~raced /\ ~torn
                         => conf' = latest
<1>1. ASSUME IInv, [Next]_vars PROVE [Restores]_vars
  <2> SUFFICES ASSUME status = "reading", status' = "up", errors' = errors, ~raced, ~torn
               PROVE  conf' = latest
    BY DEF Restores
  <2>1. \A t \in WebThreads : pc[t] = "idle"
    BY <1>1 DEF IInv, StoppedIsIdle, AllIdle
  <2>2. errors \in Nat
    BY <1>1, BoundsAssumption DEF IInv, TypeOK
  <2>3. PICK d \in Dirs : Restore(d, d)
    BY <1>1, <2>1, <2>2 DEF IInv, EmptyIsTorn, Next, Boot, Start, ReadConf, ReadNothing,
       ReadUnopened, ReadFails, ReadBreaks, Create, WriteDefault, CreateFails, Save, OpenFile, Opened,
       WriteFile, Written, SaveFails, SaveConfiguration, BeginSave, Kill, vars
  <2>4. Holds(d) /\ conf' = d
    BY <2>3 DEF Restore
  <2>5. disk # NoFile /\ disk.text = d /\ disk.length # 0
    BY <1>1, <2>4, FileFacts DEF IInv, Holds
  <2> QED
    BY <1>1, <2>4, <2>5 DEF IInv, TextIsLatest
<1> QED
  BY <1>1, Invariant, PTL DEF Spec, RestartRestores

=============================================================================
