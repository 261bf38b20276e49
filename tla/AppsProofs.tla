---------------------------- MODULE AppsProofs ----------------------------
(***************************************************************************)
(* Proofs about the app collector, for any processes, namespaces and apps. *)
(***************************************************************************)
EXTENDS Apps, FiniteSetTheorems, TLAPS

-----------------------------------------------------------------------------
(* Types.                                                                  *)

(* At most one table per namespace seen is waiting; without a procfs there *)
(* is only our own.                                                        *)
ScanInv ==
  /\ pc = "read" => todo \subseteq Everyone /\ (~procfs => todo = {})
  /\ IF procfs THEN Len(dirs) <= Cardinality(seen) ELSE Len(dirs) <= 1

(* Sets of namespaces are finite, and one more namespace counts one more.  *)
LEMMA NamespaceCounts ==
  /\ 1 <= Cardinality(Namespaces)
  /\ \A T \in SUBSET Namespaces :
       /\ IsFiniteSet(T) /\ Cardinality(T) \in Nat /\ Cardinality(T) <= Cardinality(Namespaces)
       /\ \A n \in Namespaces \ T : Cardinality(T \cup {n}) = Cardinality(T) + 1
  <1>1. IsFiniteSet(Namespaces) /\ Cardinality(Namespaces) \in Nat
    BY AppsAssumption, FS_CardinalityType
  <1>2. ASSUME NEW T \in SUBSET Namespaces
        PROVE  /\ IsFiniteSet(T) /\ Cardinality(T) \in Nat
               /\ Cardinality(T) <= Cardinality(Namespaces)
               /\ \A n \in Namespaces \ T : Cardinality(T \cup {n}) = Cardinality(T) + 1
    <2>1. IsFiniteSet(T) /\ Cardinality(T) <= Cardinality(Namespaces)
      BY <1>1, <1>2, FS_Subset
    <2>2. Cardinality(T) \in Nat
      BY <2>1, FS_CardinalityType
    <2>3. \A n \in Namespaces \ T : Cardinality(T \cup {n}) = Cardinality(T) + 1
      BY <2>1, FS_AddElement
    <2> QED
      BY <2>1, <2>2, <2>3
  <1>3. 1 <= Cardinality(Namespaces)
    <2>1. {Root} \in SUBSET Namespaces /\ Cardinality({Root}) = 1
      BY AppsAssumption, FS_Singleton
    <2> QED
      BY <1>2, <2>1
  <1> QED
    BY <1>2, <1>3

(* Append makes a sequence longer by one.                                  *)
LEMMA AppendLength ==
  ASSUME NEW S, NEW s \in Seq(S), NEW x \in S
  PROVE  Append(s, x) \in Seq(S) /\ Len(Append(s, x)) = Len(s) + 1
  OBVIOUS

(* Tail makes it shorter by one.                                           *)
LEMMA TailLength ==
  ASSUME NEW S, NEW s \in Seq(S), s # <<>>
  PROVE  Tail(s) \in Seq(S) /\ Len(Tail(s)) = Len(s) - 1
  OBVIOUS

(* Every step of the box and of the scan keeps the types and the scan's shape.*)
LEMMA ScanInductive == TypeOK /\ ScanInv /\ [Next]_vars => TypeOK' /\ ScanInv'
  <1> SUFFICES ASSUME TypeOK, ScanInv, [Next]_vars
               PROVE  TypeOK' /\ ScanInv'
    OBVIOUS
  <1> USE AppsAssumption DEF TypeOK, ScanInv, Everyone, worldVars, historyVars
  <1>1. ASSUME NEW p \in Procs, NEW n \in Namespaces, Spawn(p, n)
        PROVE  TypeOK' /\ ScanInv'
    BY <1>1 DEF Spawn, Alive, scanVars
  <1>2. ASSUME NEW p \in Procs, ExitProcess(p)
        PROVE  TypeOK' /\ ScanInv'
    BY <1>2 DEF ExitProcess, Alive, scanVars
  <1>3. ASSUME NEW p \in Everyone, NEW a \in AppPorts, Bind(p, a)
        PROVE  TypeOK' /\ ScanInv'
    BY <1>3 DEF Bind, Alive, scanVars
  <1>4. ASSUME NEW p \in Everyone, NEW a \in AppPorts, Close(p, a)
        PROVE  TypeOK' /\ ScanInv'
    BY <1>4 DEF Close, scanVars
  <1>5. CASE StartScan
    <2>1. Len(<<Self>>) = 1 /\ <<Self>> \in Seq(Everyone) /\ Cardinality({Root}) = 1
      <3>1. Cardinality({Root}) = 1
        BY FS_Singleton
      <3>2. Self \in Everyone
        OBVIOUS
      <3>3. Len(<<Self>>) = 1 /\ <<Self>> \in Seq(Everyone)
        BY <3>2
      <3> QED
        BY <3>1, <3>3
    <2>2. Holding \subseteq Everyone \X AppPorts /\ Listening \subseteq AppPorts
      BY DEF Holding, Listening
    <2>3. /\ dirs' = <<Self>> /\ seen' = (IF procfs THEN {Root} ELSE {}) /\ procfs' = procfs
          /\ heard' \subseteq AppPorts /\ steady' \subseteq Everyone \X AppPorts
          /\ ports' = {} /\ churned' = {} /\ ok' = FALSE /\ pc' = "list"
          /\ UNCHANGED <<worldVars, todo, up, told>>
      BY <1>5, <2>2 DEF StartScan, ScanFrom, OwnNamespace
    <2>4. Len(dirs') <= Cardinality(Namespaces)
      BY <2>1, <2>3, NamespaceCounts
    <2>5. ScanInv'
      BY <2>1, <2>3
    <2> QED
      BY <2>1, <2>3, <2>4, <2>5
  <1>6. CASE ListProcesses
    BY <1>6 DEF ListProcesses
  <1>7. ASSUME NEW p \in Everyone, Link(p)
        PROVE  TypeOK' /\ ScanInv'
    <2>1. CASE Unreadable(p) \/ ns[p] \in seen
      BY <1>7, <2>1 DEF Link, LinkUnless
    <2>2. CASE ~(Unreadable(p) \/ ns[p] \in seen)
      <3>1. procfs /\ ns[p] \in Namespaces \ seen /\ seen' = seen \cup {ns[p]}
        BY <1>7, <2>2 DEF Link, LinkUnless, Unreadable, Alive
      <3>2. dirs' \in Seq(Everyone) /\ Len(dirs') = Len(dirs) + 1
        <4>1. dirs' = Append(dirs, p) /\ dirs \in Seq(Everyone)
          BY <1>7, <2>2 DEF Link, LinkUnless
        <4> QED
          BY <4>1, AppendLength
      <3>3. Len(dirs') <= Cardinality(seen')
        BY <3>1, <3>2, NamespaceCounts
      <3>4. Len(dirs') <= Cardinality(Namespaces)
        BY <3>1, <3>2, <3>3, NamespaceCounts
      <3> QED
        BY <1>7, <3>1, <3>2, <3>3, <3>4 DEF Link, LinkUnless
    <2> QED
      BY <2>1, <2>2
  <1>8. CASE ReadTable
    <2>1. dirs' \in Seq(Everyone) /\ Len(dirs') = Len(dirs) - 1
      <3>1. dirs' = Tail(dirs) /\ dirs # <<>> /\ dirs \in Seq(Everyone)
        BY <1>8 DEF ReadTable
      <3> QED
        BY <3>1, TailLength
    <2>2. ports' \subseteq AppPorts
      BY <1>8 DEF ReadTable, ListeningIn
    <2>3. Cardinality(seen) \in Nat /\ Cardinality(Namespaces) \in Nat
      BY NamespaceCounts
    <2>4. /\ Len(dirs') <= Cardinality(Namespaces)
          /\ IF procfs THEN Len(dirs') <= Cardinality(seen) ELSE Len(dirs') <= 1
      <3>1. Len(dirs) \in Nat
        BY <2>1
      <3> QED
        BY <2>1, <2>3, <3>1
    <2> QED
      BY <1>8, <2>1, <2>2, <2>4 DEF ReadTable
  <1>9. CASE ReadAll
    BY <1>9 DEF ReadAll
  <1>10. ASSUME NEW a \in AppPorts, Probe(a)
         PROVE  TypeOK' /\ ScanInv'
    BY <1>10 DEF Probe
  <1>11. CASE PublishApps
    BY <1>11 DEF PublishApps
  <1>12. CASE Stop
    BY <1>12 DEF Stop
  <1>13. CASE UNCHANGED vars
    BY <1>13 DEF vars, scanVars
  <1> QED
    BY <1>1, <1>2, <1>3, <1>4, <1>5, <1>6, <1>7, <1>8, <1>9, <1>10, <1>11, <1>12, <1>13
    DEF Next, World, ScanStep

(* They hold from the start.                                               *)
LEMMA ScanAlways == Spec => [](TypeOK /\ ScanInv)
  <1>1. Init => TypeOK /\ ScanInv
    <2> SUFFICES ASSUME Init PROVE TypeOK /\ ScanInv
      OBVIOUS
    <2>1. dirs \in Seq(Everyone) /\ Len(dirs) = 0 /\ seen = {}
      BY DEF Init
    <2>2. Cardinality(Namespaces) \in Nat /\ Cardinality(seen) = 0
      BY <2>1, NamespaceCounts, FS_EmptySet
    <2>3. Len(dirs) <= Cardinality(Namespaces) /\ Len(dirs) <= Cardinality(seen) /\ Len(dirs) <= 1
      BY <2>1, <2>2
    <2>4. ns \in [Everyone -> Namespaces \cup {Gone}] /\ ns[Self] = Root
      BY AppsAssumption DEF Init, Everyone
    <2> QED
      BY <2>1, <2>3, <2>4 DEF Init, TypeOK, ScanInv
  <1> QED
    BY <1>1, ScanInductive, PTL DEF Spec

(* The collector's state keeps its types, and it reads one table per       *)
(* network namespace, however many processes there are (netTableDirs).     *)
THEOREM AppsTypeCorrect == Spec => []TypeOK
  BY ScanAlways, PTL

-----------------------------------------------------------------------------
(* What is reported up.                                                    *)

(* Whatever the scan found, or could find now, listened during the scan.   *)
HeardInv == ports \subseteq heard /\ Listening \subseteq heard

(* Nothing enters the result that did not listen at that moment.           *)
LEMMA HeardInductive == TypeOK /\ HeardInv /\ [Next]_vars => HeardInv'
  <1> SUFFICES ASSUME TypeOK, HeardInv, [Next]_vars
               PROVE  HeardInv'
    OBVIOUS
  <1> USE DEF HeardInv, Listening, worldVars, historyVars
  <1>1. \A n : ListeningIn(n) \subseteq Listening
    BY DEF ListeningIn
  <1>2. ASSUME NEW p \in Procs, NEW n \in Namespaces, Spawn(p, n)
        PROVE  HeardInv'
    BY <1>2 DEF Spawn, scanVars
  <1>3. ASSUME NEW p \in Procs, ExitProcess(p)
        PROVE  HeardInv'
    BY <1>3 DEF ExitProcess, scanVars, TypeOK
  <1>4. ASSUME NEW p \in Everyone, NEW a \in AppPorts, Bind(p, a)
        PROVE  HeardInv'
    BY <1>4 DEF Bind, scanVars, TypeOK
  <1>5. ASSUME NEW p \in Everyone, NEW a \in AppPorts, Close(p, a)
        PROVE  HeardInv'
    BY <1>5 DEF Close, scanVars, TypeOK
  <1>6. CASE StartScan
    BY <1>6 DEF StartScan, ScanFrom
  <1>7. CASE ListProcesses
    BY <1>7 DEF ListProcesses
  <1>8. ASSUME NEW p \in Everyone, Link(p)
        PROVE  HeardInv'
    BY <1>8 DEF Link, LinkUnless
  <1>9. CASE ReadTable
    BY <1>1, <1>9 DEF ReadTable
  <1>10. CASE ReadAll
    BY <1>10 DEF ReadAll
  <1>11. ASSUME NEW a \in AppPorts, Probe(a)
         PROVE  HeardInv'
    BY <1>1, <1>11 DEF Probe
  <1>12. CASE PublishApps
    BY <1>12 DEF PublishApps
  <1>13. CASE Stop
    BY <1>13 DEF Stop
  <1>14. CASE UNCHANGED vars
    BY <1>14 DEF vars, scanVars
  <1> QED
    BY <1>2, <1>3, <1>4, <1>5, <1>6, <1>7, <1>8, <1>9, <1>10, <1>11, <1>12, <1>13, <1>14
    DEF Next, World, ScanStep

(* collectApps never reports an app up that did not listen while it looked. *)
THEOREM AppsUpWasListening == Spec => UpWasListening
  <1>1. Init => HeardInv
    BY DEF Init, HeardInv, Listening
  <1>2. HeardInv /\ [Next]_vars => [PublishApps => up' \subseteq heard]_vars
    BY DEF HeardInv, PublishApps
  <1> QED
    BY <1>1, <1>2, AppsTypeCorrect, HeardInductive, PTL DEF Spec, UpWasListening

-----------------------------------------------------------------------------
(* What is not missed.                                                     *)

(* Apps the scan has to find.  Only a process that may be inspected, or    *)
(* the daemon itself, stands for a namespace.                              *)
Due(h) ==
  ns[h[1]] = Root \/ (procfs /\ h[1] \notin Foreign /\ ns[h[1]] \notin churned)

(* A table of the namespace is still to be read: of the root namespace our *)
(* own, since the process that is waiting may have come there since.       *)
ToRead(n) == \E i \in DOMAIN dirs : ns[dirs[i]] = n /\ (n = Root => dirs[i] = Self)

(* A process that listens all along is still to be looked at, or its       *)
(* namespace was seen; a namespace that was seen and lost nobody is still  *)
(* to be read, or its ports have been found.                               *)
SteadyInv ==
  /\ \A p \in Everyone : binds[p] # {} => Alive(p)
  /\ \A h \in steady : h[2] \in binds[h[1]]
  /\ pc \in {"list", "read"} => IF procfs THEN Root \in seen ELSE seen = {} /\ ~ok
  /\ pc = "list" => ~ok /\ dirs = <<Self>>
  /\ pc = "read" /\ procfs => ok \/ (dirs # <<>> /\ Head(dirs) = Self)
  /\ pc = "read" /\ procfs => \A h \in steady : Due(h) => h[1] \in todo \/ ns[h[1]] \in seen
  /\ pc \in {"list", "read"} =>
       \A h \in steady :
         ns[h[1]] \in seen /\ (ns[h[1]] = Root \/ ns[h[1]] \notin churned) =>
           h[2] \in ports \/ ToRead(ns[h[1]])
  /\ pc = "publish" => \A h \in steady : Due(h) => h[2] \in ports
  /\ pc = "probe" => ~procfs /\ \A h \in steady : Due(h) => h[2] \in ports \cup todo

(* No step loses a steady listener: it stays ahead of the scan or is found.*)
LEMMA SteadyInductive == TypeOK /\ ScanInv /\ SteadyInv /\ [Next]_vars => SteadyInv'
  <1> SUFFICES ASSUME TypeOK, ScanInv, SteadyInv, [Next]_vars
               PROVE  SteadyInv'
    OBVIOUS
  <1> USE AppsAssumption DEF Everyone, worldVars, scanVars, historyVars
  <1>0. \A h \in steady : h[1] \in Everyone /\ h[2] \in AppPorts /\ Alive(h[1])
    BY DEF TypeOK, SteadyInv
  <1>1. ASSUME NEW p \in Procs, NEW n \in Namespaces, Spawn(p, n)
        PROVE  SteadyInv'
    <2>1. \A h \in steady : ns'[h[1]] = ns[h[1]]
      BY <1>0, <1>1 DEF Spawn, Alive, TypeOK
    <2>2. \A m \in Namespaces : ToRead(m) => ToRead(m)'
      BY <1>1 DEF Spawn, Alive, TypeOK, ToRead
    <2>3. \A h \in steady : ToRead(ns[h[1]]) => ToRead(ns[h[1]])'
      BY <1>0, <2>1, <2>2 DEF Alive, TypeOK
    <2> QED
      BY <1>0, <1>1, <2>1, <2>3 DEF Spawn, Alive, TypeOK, SteadyInv, Due
  <1>2. ASSUME NEW p \in Procs, ExitProcess(p)
        PROVE  SteadyInv'
    <2>1. \A h \in steady' : h \in steady /\ h[1] # p /\ ns'[h[1]] = ns[h[1]]
                             /\ binds'[h[1]] = binds[h[1]]
      BY <1>0, <1>2 DEF ExitProcess, TypeOK
    <2>2. \A m : ToRead(m) /\ (m = Root \/ m # ns[p]) => ToRead(m)'
      BY <1>2 DEF ExitProcess, TypeOK, ToRead
    <2> QED
      BY <1>0, <1>2, <2>1, <2>2 DEF ExitProcess, Alive, TypeOK, SteadyInv, Due
  <1>3. ASSUME NEW p \in Everyone, NEW a \in AppPorts, Bind(p, a)
        PROVE  SteadyInv'
    BY <1>0, <1>3 DEF Bind, Alive, TypeOK, SteadyInv, Due, ToRead
  <1>4. ASSUME NEW p \in Everyone, NEW a \in AppPorts, Close(p, a)
        PROVE  SteadyInv'
    <2>1. \A h \in steady' : h \in steady /\ h[2] \in binds'[h[1]]
      BY <1>0, <1>4 DEF Close, TypeOK, SteadyInv
    <2> QED
      BY <1>4, <2>1 DEF Close, Alive, TypeOK, SteadyInv, Due, ToRead
  <1>5. CASE StartScan
    <2>1. /\ pc' = "list" /\ ports' = {} /\ ok' = FALSE /\ dirs' = <<Self>>
          /\ seen' = (IF procfs THEN {Root} ELSE {}) /\ steady' = Holding
          /\ UNCHANGED <<procfs, ns, binds>>
      BY <1>5 DEF StartScan, ScanFrom, OwnNamespace
    <2>2. 1 \in DOMAIN dirs' /\ dirs'[1] = Self
      BY <2>1
    <2>3. ToRead(Root)'
      BY <2>1, <2>2 DEF ToRead, TypeOK
    <2>4. \A h \in steady' : h[2] \in binds[h[1]]
      BY <2>1 DEF Holding
    <2> QED
      BY <2>1, <2>3, <2>4 DEF SteadyInv, Alive
  <1>6. CASE ListProcesses
    <2>1. procfs => \A h \in steady : h[1] \in todo'
      BY <1>0, <1>6 DEF ListProcesses
    <2>2. dirs # <<>> /\ Head(dirs) = Self
      BY <1>6 DEF ListProcesses, SteadyInv
    <2> QED
      BY <1>6, <2>1, <2>2 DEF ListProcesses, SteadyInv, Alive, Due, ToRead
  <1>7. ASSUME NEW p \in Everyone, Link(p)
        PROVE  SteadyInv'
    <2>1. procfs /\ Root \in seen /\ pc = "read"
      BY <1>7 DEF Link, LinkUnless, ScanInv, SteadyInv
    <2>2. CASE Unreadable(p) \/ ns[p] \in seen
      <3>1. \A h \in steady : Due(h) /\ h[1] = p => ns[h[1]] \in seen
        BY <1>0, <2>1, <2>2 DEF Due, Unreadable
      <3> QED
        BY <1>7, <2>1, <2>2, <3>1 DEF Link, LinkUnless, SteadyInv, Alive, Due, ToRead
    <2>3. CASE ~(Unreadable(p) \/ ns[p] \in seen)
      <3>1. seen' = seen \cup {ns[p]} /\ dirs' = Append(dirs, p) /\ ns[p] # Root
        BY <1>7, <2>1, <2>3 DEF Link, LinkUnless
      <3>2. /\ DOMAIN dirs' = 1 .. (Len(dirs) + 1) /\ dirs'[Len(dirs) + 1] = p
            /\ DOMAIN dirs = 1 .. Len(dirs) /\ \A i \in DOMAIN dirs : dirs'[i] = dirs[i]
            /\ Len(dirs) \in Nat
            /\ dirs # <<>> => dirs' # <<>> /\ Head(dirs') = Head(dirs)
        BY <3>1 DEF TypeOK
      <3>3. ns' = ns
        BY <1>7 DEF Link, LinkUnless
      <3>4. \A m : ToRead(m) => ToRead(m)'
        BY <3>2, <3>3 DEF ToRead
      <3>5. ToRead(ns[p])'
        BY <3>1, <3>2, <3>3 DEF ToRead
      <3> QED
        BY <1>7, <2>1, <2>3, <3>1, <3>2, <3>3, <3>4, <3>5
        DEF Link, LinkUnless, SteadyInv, Alive, Due
    <2> QED
      BY <2>2, <2>3
  <1>8. CASE ReadTable
    <2> DEFINE d == Head(dirs)
    <2>1. /\ d \in Everyone /\ d = dirs[1] /\ DOMAIN dirs = 1 .. Len(dirs) /\ Len(dirs) \in Nat
          /\ DOMAIN dirs' = 1 .. (Len(dirs) - 1)
          /\ \A i \in DOMAIN dirs : i = 1 \/ (i - 1 \in DOMAIN dirs' /\ dirs'[i - 1] = dirs[i])
      BY <1>8 DEF ReadTable, TypeOK
    <2>2. ns' = ns
      BY <1>8 DEF ReadTable
    <2>3. \A m : ToRead(m) => ToRead(m)' \/ (ns[d] = m /\ (m = Root => d = Self))
      BY <2>1, <2>2 DEF ToRead
    <2>4. \A h \in steady : ns[h[1]] = ns[d] => h[2] \in ListeningIn(ns[d])
      BY <1>0 DEF ListeningIn, SteadyInv
    <2>5. procfs => \A h \in steady : ns[h[1]] = ns[d] => h[2] \in ports'
      BY <1>0, <1>8, <2>4 DEF ReadTable, Alive
    <2>6. procfs => ok' \/ (dirs' # <<>> /\ Head(dirs') = Self)
      BY <1>8 DEF ReadTable, SteadyInv, Alive, TypeOK
    <2>7. ~procfs => seen' = {} /\ ~ok'
      BY <1>8 DEF ReadTable, SteadyInv
    <2>8. ports \subseteq ports'
      BY <1>8 DEF ReadTable
    <2> QED
      BY <1>8, <2>2, <2>3, <2>5, <2>6, <2>7, <2>8 DEF ReadTable, SteadyInv, Alive, Due
  <1>9. CASE ReadAll
    <2>1. \A m : ~ToRead(m)
      BY <1>9 DEF ReadAll, ToRead
    <2>2. procfs => ok /\ \A h \in steady : Due(h) => h[2] \in ports
      BY <1>9, <2>1 DEF ReadAll, SteadyInv, Due
    <2>3. ~procfs => ~ok
      BY <1>9 DEF ReadAll, SteadyInv
    <2> QED
      BY <1>0, <1>9, <2>2, <2>3 DEF ReadAll, SteadyInv, Alive, Due
  <1>10. ASSUME NEW a \in AppPorts, Probe(a)
         PROVE  SteadyInv'
    <2>1. \A h \in steady : Due(h) => ns[h[1]] = Root /\ h[2] \in ports \cup todo
      BY <1>10 DEF Probe, SteadyInv, Due
    <2>2. \A h \in steady : ns[h[1]] = Root => h[2] \in ListeningIn(Root)
      BY <1>0 DEF ListeningIn, SteadyInv
    <2> QED
      BY <1>10, <2>1, <2>2 DEF Probe, SteadyInv, Alive, Due
  <1>11. CASE PublishApps
    BY <1>11 DEF PublishApps, SteadyInv, Alive
  <1>12. CASE Stop
    BY <1>12 DEF Stop, SteadyInv, Alive
  <1>13. CASE UNCHANGED vars
    BY <1>13 DEF vars, SteadyInv, Alive, Due, ToRead
  <1> QED
    BY <1>1, <1>2, <1>3, <1>4, <1>5, <1>6, <1>7, <1>8, <1>9, <1>10, <1>11, <1>12, <1>13
    DEF Next, World, ScanStep

(* collectApps reports every app that listens throughout a scan, in any    *)
(* network namespace it may look into and that lost no process meanwhile.  *)
THEOREM AppsSteadyIsUp == Spec => SteadyIsUp
  <1>1. Init => SteadyInv
    BY DEF Init, SteadyInv, Alive
  <1>2. TypeOK /\ SteadyInv /\ [Next]_vars =>
          [PublishApps =>
             \A h \in steady :
               \/ h[2] \in up'
               \/ ns[h[1]] # Root
                  /\ (~procfs \/ h[1] \in Foreign \/ ns[h[1]] \in churned)]_vars
    BY DEF PublishApps, SteadyInv, Due, TypeOK
  <1> QED
    BY <1>1, <1>2, ScanAlways, SteadyInductive, PTL DEF Spec, SteadyIsUp
=============================================================================
