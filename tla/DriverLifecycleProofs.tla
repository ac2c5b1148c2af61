------------------------ MODULE DriverLifecycleProofs ------------------------
(***************************************************************************)
(* For any number of users: however loading and removing the driver goes,  *)
(* the thread and the open descriptors have their memory, only a load with *)
(* a failed step gets stuck, and users come to harm in the two gaps only.  *)
(*                                                                         *)
(* The invariant says what is held at every place of the loader, which     *)
(* makes the unconditional resource_cleanup right or an oops, and where    *)
(* the loader may be while somebody has the device open.                   *)
(***************************************************************************)
EXTENDS DriverLifecycle, TLAPS

\* What a load holds when a step before init_waitqueue_head fails.
UpTo ==
  {{"dev"}, {"dev", "region"}, {"dev", "region", "cdev"},
   {"dev", "region", "cdev", "class"},
   {"dev", "region", "cdev", "class", "device"}}

\* What is held at each place of dev_driver_init ...
LoadHolds ==
  /\ mpc \in {"unloaded", "dev"} => held = {}
  /\ mpc = "region" => held = {"dev"}
  /\ mpc = "cdev" => held = {"dev", "region"}
  /\ mpc = "class" => held = {"dev", "region", "cdev"}
  /\ mpc = "device" => held = {"dev", "region", "cdev", "class"}
  /\ mpc = "buff" => held = {"dev", "region", "cdev", "class", "device"}
  /\ mpc = "queue" => held = Resources \ {"queue", "thread"}
  /\ mpc = "thread" => held = Resources \ {"thread"}
  /\ mpc = "live" => held = Resources
  /\ mpc \in {"cleanup", "stuck"} /\ caller = "init" =>
       failed /\ held \in UpTo \union {Resources \ {"thread"}}
  /\ mpc = "cleanup" /\ caller = "init" => held \in UpTo

\* ... and of dev_driver_exit.
ExitHolds ==
  /\ mpc \in {"cleanup", "stop", "join"} /\ caller = "exit" =>
       held = Resources
  /\ mpc = "put_device" => held = Resources \ {"thread"}
  /\ mpc = "put_class" => held = Resources \ {"thread", "device"}
  /\ mpc = "put_region" => held = Resources \ {"thread", "device", "class"}
  /\ mpc = "put_buff" => held = {"dev", "cdev", "buff", "queue"}
  /\ mpc = "free" => held = {"dev", "cdev", "queue"}

Loading == {"dev", "region", "cdev", "class", "device", "buff", "queue",
            "thread", "live"}
Leaving == {"stop", "join", "put_device", "put_class", "put_region",
            "put_buff", "free"}

\* Who is at work, and whether the thread is there.
Phase ==
  /\ mpc \in Loading \union {"stuck"} => caller = "init"
  /\ mpc \in Leaving => caller = "exit"
  /\ tpc # "none" <=> "thread" \in held
  /\ mpc # "join" => tpc # "exited"

\* Nobody has the device open while it is removed, and who is in a call that
\* has no queue was early.
UsersFit ==
  \A u \in Users :
    /\ upc[u] \in {"open", "calling", "hung"} =>
         "cdev" \in held /\ caller = "init"
    /\ upc[u] = "calling" /\ "queue" \notin held => u \in early
    /\ upc[u] \in {"hung", "dead"} => u \in early \union late

LInv == TypeOK /\ LoadHolds /\ ExitHolds /\ Phase /\ UsersFit

LEMMA LifecycleInit == Init => LInv
  BY DEF Init, LInv, TypeOK, MPcs, Resources, LoadHolds, ExitHolds, Phase,
         Loading, Leaving, UsersFit

LEMMA LoadStep == ASSUME LInv, Load PROVE LInv'
  <1> USE DEF LInv, TypeOK, MPcs, Resources, LoadHolds, ExitHolds, Phase,
              Loading, Leaving, UsersFit, MMove, Acquire, users
  <1>1. CASE ILoad BY <1>1 DEF ILoad
  <1>2. CASE IDev BY <1>2 DEF IDev
  <1>3. CASE INoMemory BY <1>3 DEF INoMemory
  <1>4. CASE IRegion BY <1>4 DEF IRegion
  <1>5. CASE ICdev BY <1>5 DEF ICdev
  <1>6. CASE IClass BY <1>6 DEF IClass
  <1>7. CASE IDevice BY <1>7 DEF IDevice
  <1>8. CASE IBuff BY <1>8 DEF IBuff
  <1>9. CASE IQueue BY <1>9 DEF IQueue
  <1>10. CASE IThread BY <1>10 DEF IThread
  <1>11. CASE IThreadFails BY <1>11 DEF IThreadFails
  <1>12. CASE IFails BY <1>12 DEF IFails, UpTo
  <1> QED BY <1>1, <1>2, <1>3, <1>4, <1>5, <1>6, <1>7, <1>8, <1>9, <1>10,
             <1>11, <1>12 DEF Load

LEMMA UnloadStep == ASSUME LInv, Unload PROVE LInv'
  <1> USE DEF LInv, TypeOK, MPcs, Resources, LoadHolds, ExitHolds, Phase,
              Loading, Leaving, UsersFit, MMove, Release, users
  <1>1. CASE XExit BY <1>1 DEF XExit, InUse
  <1>2. CASE CWake BY <1>2 DEF CWake, UpTo
  <1>3. CASE CStop BY <1>3 DEF CStop
  <1>4. CASE CJoin BY <1>4 DEF CJoin
  <1>5. CASE CDevice BY <1>5 DEF CDevice
  <1>6. CASE CClass BY <1>6 DEF CClass
  <1>7. CASE CRegion BY <1>7 DEF CRegion
  <1>8. CASE CBuff BY <1>8 DEF CBuff
  <1>9. CASE CFree BY <1>9 DEF CFree
  <1> QED BY <1>1, <1>2, <1>3, <1>4, <1>5, <1>6, <1>7, <1>8, <1>9 DEF Unload

LEMMA ThreadStep == ASSUME LInv, TRun \/ TQuit PROVE LInv'
  BY DEF LInv, TypeOK, LoadHolds, ExitHolds, Phase, UsersFit, TRun, TQuit,
         loader, users

LEMMA UserStep == ASSUME LInv, NEW u \in Users, User(u) PROVE LInv'
  <1> USE DEF LInv, TypeOK, Resources, UsersFit, UMove, loader
  <1>1. UNCHANGED <<mpc, caller, failed, held, tpc>>
    BY DEF User, UFind, UOpen, UOpenFreed, UCall, UMeetsNoQueue, UReturn, UClose
  <1>2. (LoadHolds /\ ExitHolds /\ Phase)'
    BY <1>1 DEF LoadHolds, ExitHolds, Phase
  <1>3. TypeOK' /\ UsersFit'
    <2>1. CASE UFind(u) BY <2>1 DEF UFind
    <2>2. CASE UOpen(u) BY <2>2 DEF UOpen
    <2>3. CASE UOpenFreed(u) BY <2>3 DEF UOpenFreed
    <2>4. CASE UCall(u)
      <3>1. Loaded => "queue" \in held
        BY <2>4 DEF UCall, Loaded, LoadHolds
      <3> QED BY <2>4, <3>1 DEF UCall
    <2>5. CASE UMeetsNoQueue(u) BY <2>5 DEF UMeetsNoQueue
    <2>6. CASE UReturn(u) BY <2>6 DEF UReturn
    <2>7. CASE UClose(u) BY <2>7 DEF UClose
    <2> QED BY <2>1, <2>2, <2>3, <2>4, <2>5, <2>6, <2>7 DEF User
  <1> QED BY <1>2, <1>3

\* The invariant holds of every load, failure and removal.
THEOREM LifecycleInvariant == Spec => []LInv
  <1>1. LInv /\ [Next]_vars => LInv'
    <2> SUFFICES ASSUME LInv, [Next]_vars PROVE LInv'
      OBVIOUS
    <2>1. CASE UNCHANGED vars
      BY <2>1 DEF vars, loader, users, LInv, TypeOK, LoadHolds, ExitHolds,
                  Phase, UsersFit
    <2>2. CASE Next
      BY <2>2, LoadStep, UnloadStep, ThreadStep, UserStep DEF Next
    <2> QED BY <2>1, <2>2
  <1> QED BY <1>1, LifecycleInit, PTL DEF Spec

\* Type correctness of the variables of the life of the driver.
THEOREM LifecycleTypeOK == Spec => []TypeOK
  <1>1. LInv => TypeOK BY DEF LInv
  <1> QED BY <1>1, LifecycleInvariant, PTL

\* dev_driver_init returns 0 (driver.c 379 and 385) only when all is there,
\* only a load that has failed leaves a module nobody can remove, and a removal
\* leaves nothing but the registered cdev behind.
THEOREM RestsAreProper == Spec => []RestsWholeOrGone
  <1>1. LInv => LoadedIsWhole
    BY DEF LInv, TypeOK, LoadHolds, Phase, LoadedIsWhole, Resources
  <1>2. LInv => StuckOnlyAfterFailure
    BY DEF LInv, LoadHolds, Phase, StuckOnlyAfterFailure
  <1>3. LInv => NothingElseIsLeft
    BY DEF LInv, LoadHolds, Phase, NothingElseIsLeft
  <1>4. LInv => RestsWholeOrGone
    BY <1>1, <1>2, <1>3 DEF RestsWholeOrGone
  <1> QED BY <1>4, LifecycleInvariant, PTL

\* Memory outlives its users: the thread's, that of open descriptors, and
\* what the name in /dev leads to.
THEOREM MemoryIsThere == Spec => []MemoryOutlivesUsers
  <1>1. LInv => ThreadHasItsMemory
    BY DEF LInv, TypeOK, MPcs, LoadHolds, ExitHolds, Phase, Loading, Leaving,
           UpTo, Resources, ThreadHasItsMemory
  <1>2. LInv => DescriptorHasItsDevice
    BY DEF LInv, TypeOK, MPcs, LoadHolds, ExitHolds, Phase, Loading, Leaving,
           UpTo, Resources, DescriptorHasItsDevice, UsersFit
  <1>3. LInv => NameLeadsToADevice
    BY DEF LInv, TypeOK, MPcs, LoadHolds, ExitHolds, Phase, Loading, Leaving,
           UpTo, Resources, NameLeadsToADevice
  <1>4. LInv => MemoryOutlivesUsers
    BY <1>1, <1>2, <1>3 DEF MemoryOutlivesUsers
  <1> QED BY <1>4, LifecycleInvariant, PTL

\* Users are killed or blocked in the two gaps only.
THEOREM HarmInTheGapsOnly == Spec => []UsersFailInTheGapsOnly
  <1>1. LInv => UsersFailInTheGapsOnly
    BY DEF LInv, UsersFit, UsersFailInTheGapsOnly
  <1> QED BY <1>1, LifecycleInvariant, PTL
=============================================================================
