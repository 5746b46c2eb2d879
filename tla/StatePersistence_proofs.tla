----------------------- MODULE StatePersistence_proofs -----------------------
(***************************************************************************)
(* Proofs about StatePersistence, for any set of rooms and any faults.     *)
(***************************************************************************)
EXTENDS StatePersistence, TLAPS

LEMMA EmptySnapshot == Empty \in Snapshots /\ Known(Empty) = {}
BY DEF Empty, Snapshots, Known

LEMMA LoadedSnapshot == \A m, b : Loaded(m, b) \in Snapshots
BY EmptySnapshot DEF Loaded

\* How the operations change the persisted cameras.
LEMMA MarkedSnapshot ==
  ASSUME NEW s \in Snapshots, NEW room \in Rooms,
         NEW value \in {"absent", "running", "error"}
  PROVE  /\ [s EXCEPT ![room] = value] \in Snapshots
         /\ Known(s) \ {room} \subseteq Known([s EXCEPT ![room] = value])
         /\ value # "absent" => Known(s) \subseteq Known([s EXCEPT ![room] = value])
BY DEF Snapshots, Known

-----------------------------------------------------------------------------
(* Type correctness.                                                       *)

LEMMA TypeInit == Init => TypeOK
BY EmptySnapshot DEF Init, TypeOK

LEMMA TypeNext == TypeOK /\ [Next]_vars => TypeOK'
<1> SUFFICES ASSUME TypeOK, [Next]_vars PROVE TypeOK'
  OBVIOUS
<1> USE DEF TypeOK, files, process
<1>1. CASE Stop
  BY <1>1, EmptySnapshot DEF Stop
<1>2. CASE BootTest
  BY <1>2 DEF BootTest
<1>3. CASE BootRestore
  BY <1>3, LoadedSnapshot DEF BootRestore
<1>4. CASE BeginCopy
  BY <1>4 DEF BeginCopy
<1>5. CASE EndCopy
  BY <1>5 DEF EndCopy
<1>6. CASE CopyFails
  BY <1>6 DEF CopyFails
<1>7. CASE BeginWrite
  BY <1>7 DEF BeginWrite
<1>8. CASE EndWrite
  BY <1>8 DEF EndWrite, SaveReturns, Running, Known
<1>9. CASE WriteFails
  BY <1>9 DEF WriteFails, SaveReturns, Running
<1>10. ASSUME NEW room \in Rooms, Restore(room) PROVE TypeOK'
  BY <1>10 DEF Restore
<1>11. ASSUME NEW room \in Rooms, RestoreFails(room) PROVE TypeOK'
  BY <1>11, MarkedSnapshot DEF RestoreFails
<1>12. ASSUME NEW room \in Rooms, InsertCamera(room) PROVE TypeOK'
  BY <1>12 DEF InsertCamera
<1>13. ASSUME NEW room \in Rooms, MarkAdded(room) PROVE TypeOK'
  BY <1>13, MarkedSnapshot DEF MarkAdded
<1>14. ASSUME NEW room \in Rooms, TakeOut(room) PROVE TypeOK'
  BY <1>14 DEF TakeOut
<1>15. ASSUME NEW room \in Rooms, MarkRemoved(room) PROVE TypeOK'
  BY <1>15, MarkedSnapshot DEF MarkRemoved
<1>16. ASSUME NEW room \in Rooms, RemoveFails(room) PROVE TypeOK'
  BY <1>16 DEF RemoveFails
<1>17. CASE UNCHANGED vars
  BY <1>17 DEF vars
<1>18. QED
  BY <1>1, <1>2, <1>3, <1>4, <1>5, <1>6, <1>7, <1>8, <1>9, <1>10, <1>11,
     <1>12, <1>13, <1>14, <1>15, <1>16, <1>17 DEF Next

\* Every variable keeps its type: the state in memory is always a parsed one.
THEOREM TypeCorrect == Spec => []TypeOK
BY TypeInit, TypeNext, PTL DEF Spec

-----------------------------------------------------------------------------
(* What a restart would load.                                              *)

\* The stages of a save: while the copy runs the backup is cut off.  A save only
\* runs in a live process, a restore loop only after load_or_create, and cameras
\* are added and removed after that.  A camera that is being removed is not in
\* the registry.
SaveInv ==
    /\ TypeOK
    /\ saving = "copying" => backup = Torn
    /\ saving # "idle" => pc # "down"
    /\ todo # {} => pc = "up"
    /\ adding \cup removing # {} => pc = "up" /\ todo = {}
    /\ removing \cap cameras = {}

LEMMA SaveInvariant == Spec => []SaveInv
<1>1. Init => SaveInv
  BY TypeInit DEF Init, SaveInv
<1>2. SaveInv /\ [Next]_vars => SaveInv'
  <2> SUFFICES ASSUME SaveInv, [Next]_vars PROVE SaveInv'
    OBVIOUS
  <2>a. TypeOK'
    BY TypeNext DEF SaveInv
  <2> USE DEF SaveInv, files, process
  <2>1. CASE Stop \/ BootTest \/ BootRestore
    BY <2>a, <2>1 DEF Stop, BootTest, BootRestore
  <2>2. CASE BeginCopy \/ EndCopy \/ CopyFails \/ BeginWrite
    BY <2>a, <2>2 DEF BeginCopy, EndCopy, CopyFails, BeginWrite
  <2>3. CASE EndWrite \/ WriteFails
    BY <2>a, <2>3 DEF EndWrite, WriteFails, SaveReturns
  <2>4. ASSUME NEW room \in Rooms, Restore(room) \/ RestoreFails(room)
        PROVE  SaveInv'
    BY <2>a, <2>4 DEF Restore, RestoreFails
  <2>5. ASSUME NEW room \in Rooms, InsertCamera(room) \/ MarkAdded(room)
        PROVE  SaveInv'
    BY <2>a, <2>5 DEF InsertCamera, MarkAdded, Restored, Free
  <2>6. ASSUME NEW room \in Rooms,
               TakeOut(room) \/ MarkRemoved(room) \/ RemoveFails(room)
        PROVE  SaveInv'
    BY <2>a, <2>6 DEF TakeOut, MarkRemoved, RemoveFails, Restored, Free
  <2>7. CASE UNCHANGED vars
    BY <2>a, <2>7 DEF vars
  <2>8. QED
    BY <2>1, <2>2, <2>3, <2>4, <2>5, <2>6, <2>7 DEF Next
<1>3. QED
  BY <1>1, <1>2, PTL DEF Spec

\* A step either keeps what a restart would load, or makes it the state being
\* saved, or is one of the two steps that overwrite the last good copy.
LEMMA StepConfinesLoss ==
  SaveInv /\ [Next]_vars =>
      \/ Recoverable' \in {Recoverable, mem}
      \/ saving = "requested" /\ main = Torn
      \/ saving = "write" /\ backup # main
<1> SUFFICES ASSUME SaveInv, [Next]_vars
             PROVE  \/ Recoverable' \in {Recoverable, mem}
                    \/ saving = "requested" /\ main = Torn
                    \/ saving = "write" /\ backup # main
  OBVIOUS
<1> USE DistinctFiles DEF SaveInv, TypeOK, files, Recoverable
<1>1. ASSUME UNCHANGED files PROVE Recoverable' = Recoverable
  BY <1>1
<1>2. CASE BeginCopy \/ CopyFails
  BY <1>2 DEF BeginCopy, CopyFails, Loaded
<1>3. CASE EndCopy
  BY <1>3 DEF EndCopy, Loaded
<1>4. CASE BeginWrite
  BY <1>4 DEF BeginWrite, Loaded
<1>5. CASE EndWrite
  BY <1>5 DEF EndWrite, Loaded
<1>6. CASE Stop \/ BootTest \/ BootRestore \/ WriteFails
  BY <1>1, <1>6 DEF Stop, BootTest, BootRestore, WriteFails
<1>7. ASSUME NEW room \in Rooms,
             \/ Restore(room) \/ RestoreFails(room) \/ InsertCamera(room)
             \/ MarkAdded(room) \/ TakeOut(room) \/ MarkRemoved(room)
             \/ RemoveFails(room)
      PROVE  Recoverable' = Recoverable
  BY <1>1, <1>7 DEF Restore, RestoreFails, InsertCamera, MarkAdded, TakeOut,
                    MarkRemoved, RemoveFails
<1>8. CASE UNCHANGED vars
  BY <1>1, <1>8 DEF vars
<1>9. QED
  BY <1>2, <1>3, <1>4, <1>5, <1>6, <1>7, <1>8 DEF Next

\* Outside those two steps no step of a save, no crash and no boot changes what
\* a restart would load to anything but the state being saved.
THEOREM LossConfined == Spec => LossIsConfined
<1>1. SaveInv /\ [Next]_vars =>
        [\/ Recoverable' \in {Recoverable, mem}
         \/ saving = "requested" /\ main = Torn
         \/ saving = "write" /\ backup # main]_vars
  BY StepConfinesLoss
<1>2. QED
  BY <1>1, SaveInvariant, PTL DEF Spec, LossIsConfined

-----------------------------------------------------------------------------
(* Cameras whose addition was saved.                                       *)

\* While every boot read the file and no save went on without a good backup, the
\* acknowledged cameras are in memory and in what a restart would load; the save
\* in progress copies a file that parses, and overwrites it only when the backup
\* equals it.
AckedAreKept ==
    ~exposed =>
        /\ acked \subseteq Known(Recoverable)
        /\ pc # "down" => acked \subseteq Known(mem)
        /\ saving = "copying" => main \in Snapshots
        /\ saving = "write" => main = Absent \/ (main \in Snapshots /\ backup = main)

\* No entry of a camera that is acknowledged is about to be removed.
AckInv == AckedAreKept /\ acked \cap removing = {}

\* No step acknowledges a camera that is being removed.
LEMMA RemovedUnacked ==
  ASSUME SaveInv, acked \cap removing = {}, [Next]_vars
  PROVE  (acked \cap removing = {})'
<1> USE DEF SaveInv, TypeOK, files, process
<1>1. CASE Stop \/ BootTest \/ BootRestore
  BY <1>1 DEF Stop, BootTest, BootRestore
<1>2. CASE BeginCopy \/ EndCopy \/ CopyFails \/ BeginWrite
  BY <1>2 DEF BeginCopy, EndCopy, CopyFails, BeginWrite
<1>3. CASE EndWrite \/ WriteFails
  BY <1>3 DEF EndWrite, WriteFails, SaveReturns
<1>4. ASSUME NEW room \in Rooms,
             \/ Restore(room) \/ RestoreFails(room) \/ InsertCamera(room)
             \/ MarkAdded(room) \/ TakeOut(room) \/ MarkRemoved(room)
             \/ RemoveFails(room)
      PROVE  (acked \cap removing = {})'
  BY <1>4 DEF Restore, RestoreFails, InsertCamera, MarkAdded, TakeOut,
              MarkRemoved, RemoveFails
<1>5. CASE UNCHANGED vars
  BY <1>5 DEF vars
<1>6. QED
  BY <1>1, <1>2, <1>3, <1>4, <1>5 DEF Next

\* The same step by step.
LEMMA AckNext ==
  ASSUME SaveInv, AckInv, [Next]_vars
  PROVE  AckedAreKept'
<1> SUFFICES ASSUME ~exposed'
             PROVE  /\ acked' \subseteq Known(Recoverable')
                    /\ pc' # "down" => acked' \subseteq Known(mem')
                    /\ saving' = "copying" => main' \in Snapshots
                    /\ saving' = "write" =>
                          main' = Absent \/ (main' \in Snapshots /\ backup' = main')
  BY DEF AckedAreKept, Recoverable, Known
<1> USE DistinctFiles, EmptySnapshot
    DEF SaveInv, TypeOK, AckInv, AckedAreKept, files, process
<1>1. CASE Stop
  BY <1>1 DEF Stop, Recoverable
<1>2. CASE BootRestore
  BY <1>2 DEF BootRestore, Recoverable
<1>3. CASE BeginCopy
  BY <1>3 DEF BeginCopy, Recoverable, Loaded
<1>4. CASE EndCopy
  BY <1>4 DEF EndCopy, Recoverable, Loaded
<1>5. CASE BeginWrite
  BY <1>5 DEF BeginWrite, Recoverable, Loaded
<1>6. CASE EndWrite
  BY <1>6 DEF EndWrite, SaveReturns, Recoverable, Loaded
<1>7. CASE WriteFails
  BY <1>7 DEF WriteFails, SaveReturns, Recoverable
<1>8. ASSUME NEW room \in Rooms,
             Restore(room) \/ InsertCamera(room) \/ TakeOut(room) \/ RemoveFails(room)
      PROVE  AckedAreKept'
  BY <1>8 DEF Restore, InsertCamera, TakeOut, RemoveFails, Recoverable
<1>9. ASSUME NEW room \in Rooms, NEW value \in {"absent", "running", "error"},
             mem' = [mem EXCEPT ![room] = value],
             value = "absent" => room \in removing,
             pc = "up", saving' = "requested", UNCHANGED <<files, pc, acked, exposed>>
      PROVE  AckedAreKept'
  <2>1. acked \subseteq Known(mem')
    BY <1>9, MarkedSnapshot
  <2>2. QED
    BY <1>9, <2>1 DEF Recoverable
<1>10. ASSUME NEW room \in Rooms,
              RestoreFails(room) \/ MarkAdded(room) \/ MarkRemoved(room)
       PROVE  AckedAreKept'
  BY <1>9, <1>10 DEF RestoreFails, MarkAdded, MarkRemoved
<1>11. CASE UNCHANGED vars
  BY <1>11 DEF vars, Recoverable
<1>12. CASE BootTest \/ CopyFails
  BY <1>12 DEF BootTest, CopyFails
<1>13. QED
  BY <1>1, <1>2, <1>3, <1>4, <1>5, <1>6, <1>7, <1>8, <1>10, <1>11, <1>12 DEF Next

\* A camera whose addition was saved is in what a restart would load until a
\* boot ignores the file or a save goes on without a good backup.
THEOREM AckedSurvive == Spec => []AckedIsRecoverable
<1>1. Init => AckInv
  BY DEF Init, AckInv, AckedAreKept
<1>2. SaveInv /\ AckInv /\ [Next]_vars => AckInv'
  BY AckNext, RemovedUnacked DEF AckInv
<1>3. AckInv => AckedIsRecoverable
  BY DEF AckInv, AckedAreKept, AckedIsRecoverable
<1>4. QED
  BY <1>1, <1>2, <1>3, SaveInvariant, PTL DEF Spec

-----------------------------------------------------------------------------
(* The registry and the marks.                                             *)

\* The cameras still to be restored are marked too, and none of them is in the
\* registry yet: a restore that fails takes the mark of a camera that is not.
MarkInv ==
    /\ cameras \ adding \subseteq Running(mem)
    /\ todo \subseteq Running(mem)
    /\ cameras \cap todo = {}
    /\ pc # "up" => cameras = {} /\ todo = {}

\* Marking one room leaves the marks of the others alone.
LEMMA MarkOthers ==
  ASSUME NEW s \in Snapshots, NEW room \in Rooms,
         NEW value \in {"absent", "running", "error"}
  PROVE  /\ Running(s) \ {room} \subseteq Running([s EXCEPT ![room] = value])
         /\ value = "running" => room \in Running([s EXCEPT ![room] = value])
BY DEF Snapshots, Running

LEMMA MarkNext ==
  ASSUME SaveInv, MarkInv, [Next]_vars
  PROVE  MarkInv'
<1> USE DEF SaveInv, TypeOK, MarkInv, files, process
<1>1. CASE Stop
  BY <1>1 DEF Stop
<1>2. CASE BootTest \/ BootRestore
  BY <1>2 DEF BootTest, BootRestore
<1>3. CASE BeginCopy \/ EndCopy \/ CopyFails \/ BeginWrite
  BY <1>3 DEF BeginCopy, EndCopy, CopyFails, BeginWrite, Running
<1>4. CASE EndWrite \/ WriteFails
  <2>1. UNCHANGED <<mem, cameras, adding>> /\ todo' \in {todo, {}, Running(mem)}
    BY <1>4 DEF EndWrite, WriteFails, SaveReturns
  <2>2. pc' = "up" /\ pc # "down" /\ (todo' # todo => cameras = {})
    BY <1>4 DEF EndWrite, WriteFails, SaveReturns
  <2>3. QED
    BY <2>1, <2>2 DEF Running
<1>5. ASSUME NEW room \in Rooms, Restore(room) PROVE MarkInv'
  BY <1>5 DEF Restore, Running
<1>6. ASSUME NEW room \in Rooms, RestoreFails(room) PROVE MarkInv'
  BY <1>6, MarkOthers DEF RestoreFails
<1>7. ASSUME NEW room \in Rooms, InsertCamera(room) \/ TakeOut(room) PROVE MarkInv'
  BY <1>7 DEF InsertCamera, TakeOut, Restored, Running
<1>8. ASSUME NEW room \in Rooms, MarkAdded(room) PROVE MarkInv'
  BY <1>8, MarkOthers DEF MarkAdded
<1>9. ASSUME NEW room \in Rooms, MarkRemoved(room) PROVE MarkInv'
  <2>1. Running(mem) \ {room} \subseteq Running(mem')
    BY <1>9, MarkOthers DEF MarkRemoved
  <2>2. room \notin cameras /\ todo = {}
    BY <1>9 DEF MarkRemoved
  <2>3. QED
    BY <1>9, <2>1, <2>2 DEF MarkRemoved
<1>10. ASSUME NEW room \in Rooms, RemoveFails(room) PROVE MarkInv'
  BY <1>10 DEF RemoveFails, Running
<1>11. CASE UNCHANGED vars
  BY <1>11 DEF vars, Running
<1>12. QED
  BY <1>1, <1>2, <1>3, <1>4, <1>5, <1>6, <1>7, <1>8, <1>9, <1>10, <1>11 DEF Next

\* Through failed restores, removals and saves, crashes and boots of either kind,
\* with additions and removals of other cameras under way, every camera of the
\* registry whose addition is over is marked as running.
THEOREM RegistryMarked == Spec => []RegistryIsMarked
<1>1. Init => MarkInv
  BY DEF Init, MarkInv
<1>2. SaveInv /\ MarkInv /\ [Next]_vars => MarkInv'
  BY MarkNext
<1>3. MarkInv => RegistryIsMarked
  BY DEF MarkInv, RegistryIsMarked
<1>4. QED
  BY <1>1, <1>2, <1>3, SaveInvariant, PTL DEF Spec

=============================================================================
