--------------------- MODULE PlatformRegistrySafety_proofs ---------------------
(***************************************************************************)
(* Proofs of the safety invariants of the SystemNamespace registry model:  *)
(* NotifyOnlyOwed and LostRequestIsReported hold in every reachable state, *)
(* for every number of namespaces, workers, Systems and clients.           *)
(*                                                                         *)
(* Neither is inductive as it stands.  Both rest on facts about the one    *)
(* ResetPlatformClient that can be in progress, which holds m.lock from    *)
(* its first step to its return (manager.go 319-320): the other workers    *)
(* are idle with nothing listed, its listing holds Systems of its target   *)
(* namespace only, a read it still holds as current is what the store     *)
(* has, and once it has notified one System of the namespace a rebuild is  *)
(* pending there until it returns, because every step that could consume   *)
(* the request needs the lock.                                             *)
(***************************************************************************)
EXTENDS PlatformRegistry_proofs

USE ConstantsAssumption, IntWidthAssumption, ModulusAssumption

\* A worker inside ResetPlatformClient holds m.lock.
OneResetAtATime == \A w \in Workers : pc[w] # "idle" => lock = w

\* Only a worker in the Update loop holds a listing.
ListingOnlyInLoop == \A w \in Workers : pc[w] # "update" => DOMAIN listed[w] = {}

\* A listing holds Systems of the namespace being reset.
ListedInTarget == \A w \in Workers : DOMAIN listed[w] \subseteq ObjsIn(target[w])

\* A read still marked current is what the store holds.
FreshReadCurrent ==
    \A w \in Workers : \A o \in DOMAIN listed[w] :
        listed[w][o].fresh => listed[w][o].ann = store[o]

\* Once the loop has updated one System, a rebuild is pending for its namespace.
NotifiedPending ==
    \A w \in Workers :
        pc[w] = "update" /\ ObjsIn(target[w]) \ DOMAIN listed[w] # {}
          => RebuildPending(target[w])

\* The inductive invariant.
IInv ==
    /\ TypeOK
    /\ OneResetAtATime
    /\ ListingOnlyInLoop
    /\ ListedInTarget
    /\ FreshReadCurrent
    /\ NotifiedPending
    /\ NotifyOnlyOwed
    /\ LostRequestIsReported

-----------------------------------------------------------------------------
(* Facts about the one ResetPlatformClient in progress and about reads.    *)

\* With m.lock free, no worker is inside ResetPlatformClient.
LEMMA NoneBusy ==
    ASSUME OneResetAtATime, ListingOnlyInLoop, lock = NoOwner
    PROVE  \A v \in Workers : pc[v] = "idle" /\ DOMAIN listed[v] = {}
  BY DEF OneResetAtATime, ListingOnlyInLoop

\* A worker inside ResetPlatformClient is the only one.
LEMMA Alone ==
    ASSUME OneResetAtATime, ListingOnlyInLoop, NEW w \in Workers, pc[w] # "idle"
    PROVE  \A v \in Workers \ {w} : pc[v] = "idle" /\ DOMAIN listed[v] = {}
  BY DEF OneResetAtATime, ListingOnlyInLoop

\* A Reset in progress is about its worker's target namespace.
LEMMA InFlightIsTarget ==
    ASSUME OneResetAtATime, ListingOnlyInLoop, NEW w \in Workers, pc[w] # "idle",
           NEW x \in Namespaces
    PROVE  ResetInFlight(x) <=> x = target[w]
  BY Alone DEF ResetInFlight

\* Whether namespace x has a client, in terms of the abstract register.
LEMMA HasClientAbs ==
    ASSUME NEW x \in Namespaces
    PROVE  /\ HasClient(x) <=> absClient[x] # NoClient
           /\ HasClient(x)' <=> absClient'[x] # NoClient
  BY DEF HasClient, absClient

\* A step that keeps every queued request and every build keeps every
\* pending rebuild.
LEMMA PendingKept ==
    ASSUME \A p \in SystemObjs : sysEvent[p] \/ sysPc[p] = "build"
                                   => sysEvent'[p] \/ sysPc'[p] = "build"
    PROVE  \A x \in Namespaces : RebuildPending(x) => RebuildPending(x)'
  BY DEF RebuildPending, ObjsIn

\* A read marked stale is no longer current.
LEMMA StaleEntry ==
    ASSUME NEW e \in ListEntry
    PROVE  /\ [e EXCEPT !.fresh = FALSE].fresh = FALSE
           /\ [e EXCEPT !.fresh = FALSE].ann = e.ann
  BY DEF ListEntry

\* What Invalidate(o) leaves of every listing.
LEMMA InvalidateEffect ==
    ASSUME TypeOK, NEW o
    PROVE  \A w \in Workers :
             /\ DOMAIN Invalidate(o)[w] = DOMAIN listed[w]
             /\ \A p \in DOMAIN listed[w] \ {o} : Invalidate(o)[w][p] = listed[w][p]
             /\ o \in DOMAIN listed[w] => ~Invalidate(o)[w][o].fresh
  BY StaleEntry DEF Invalidate, TypeOK

-----------------------------------------------------------------------------
(* The induction.                                                          *)

LEMMA InitIInv == Init => IInv
<1> SUFFICES ASSUME Init PROVE IInv
  OBVIOUS
<1>1. TypeOK
  BY InitTypeOK
<1>2. \A n \in Namespaces : ObjsIn(n) # {} => RebuildPending(n)
  BY DEF Init, InitRegistry, RebuildPending, ObjsIn
<1>3. QED
  BY <1>1, <1>2 DEF Init, InitRegistry, NoListing, IInv, OneResetAtATime,
     ListingOnlyInLoop, ListedInTarget, FreshReadCurrent, NotifiedPending,
     NotifyOnlyOwed, LostRequestIsReported

\* A returning ResetPlatformClient leaves everyone idle with nothing listed.
LEMMA ReturnIInv ==
    ASSUME IInv, NEW w \in Workers, pc[w] # "idle", NEW f \in BOOLEAN, ResetReturns(w, f),
           UNCHANGED <<systems, target, store, sysEvent, sysPc, owed, restarts>>,
           TypeOK',
           ObjsIn(target[w]) # {} /\ ~f => RebuildPending(target[w])
    PROVE  IInv'
<1>1. \A v \in Workers : pc'[v] = "idle" /\ DOMAIN listed'[v] = {}
  BY Alone DEF IInv, ResetReturns, TypeOK
<1>2. lock' = NoOwner
  BY DEF ResetReturns
<1>3. LostRequestIsReported'
  <2> SUFFICES ASSUME NEW x \in Namespaces, ~HasClient(x)', ObjsIn(x) # {}
               PROVE  RebuildPending(x)' \/ resetErr'[x]
    BY <1>1 DEF LostRequestIsReported, ResetInFlight
  <2>1. CASE x = target[w]
    BY <2>1 DEF ResetReturns, RebuildPending, TypeOK, IInv
  <2>2. CASE x # target[w]
    <3>1. ~ResetInFlight(x) /\ resetErr'[x] = resetErr[x]
      BY <2>2, InFlightIsTarget DEF IInv, ResetReturns, TypeOK
    <3>2. ~HasClient(x) /\ (RebuildPending(x)' = RebuildPending(x))
      BY DEF HasClient, GetPlatformClient, RebuildPending
    <3>3. QED
      BY <3>1, <3>2 DEF IInv, LostRequestIsReported
  <2>3. QED
    BY <2>1, <2>2
<1>4. QED
  BY <1>1, <1>2, <1>3 DEF IInv, OneResetAtATime, ListingOnlyInLoop, ListedInTarget,
     FreshReadCurrent, NotifiedPending, NotifyOnlyOwed

\* A crash, by panic or restart, leaves the process as it starts.
LEMMA CrashIInv ==
    ASSUME IInv, Crash, TypeOK'
    PROVE  IInv'
<1>1. \A n \in Namespaces : ObjsIn(n) # {} => RebuildPending(n)'
  BY DEF Crash, RebuildPending, ObjsIn
<1>2. QED
  BY <1>1 DEF Crash, NoListing, IInv, OneResetAtATime, ListingOnlyInLoop,
     ListedInTarget, FreshReadCurrent, NotifiedPending, NotifyOnlyOwed,
     LostRequestIsReported

\* Every step keeps the inductive invariant.
LEMMA NextIInv == IInv /\ [Next]_vars => IInv'
<1> SUFFICES ASSUME IInv, [Next]_vars PROVE IInv'
  OBVIOUS
<1>0. TypeOK'
  BY NextTypeOK DEF IInv
<1>1. ASSUME NEW w \in Workers, NEW n \in Namespaces, NEW v \in BOOLEAN, SetSystemReady(w, n, v)
      PROVE  IInv'
  <2>1. absClient' = absClient
    BY <1>1, SetReadyRefines DEF IInv, Abstract!SetReady
  <2>2. \A x \in Namespaces : HasClient(x)' = HasClient(x)
    <3>1. \A x \in Namespaces : GetPlatformClient(x)' = GetPlatformClient(x)
      BY <2>1 DEF absClient
    <3>2. QED
      BY <3>1 DEF HasClient
  <2>3. QED
    BY <1>1, <1>0, <2>2 DEF SetSystemReady, IInv, OneResetAtATime, ListingOnlyInLoop,
       ListedInTarget, FreshReadCurrent, NotifiedPending, NotifyOnlyOwed,
       LostRequestIsReported, ResetInFlight, RebuildPending
<1>2. ASSUME NEW w \in Workers, NEW n \in Namespaces, NEW t \in SystemTypes, SetSystemType(w, n, t)
      PROVE  IInv'
  <2>1. absClient' = absClient
    BY <1>2, SetTypeRefines DEF IInv, Abstract!SetType
  <2>2. \A x \in Namespaces : HasClient(x)' = HasClient(x)
    <3>1. \A x \in Namespaces : GetPlatformClient(x)' = GetPlatformClient(x)
      BY <2>1 DEF absClient
    <3>2. QED
      BY <3>1 DEF HasClient
  <2>3. QED
    BY <1>2, <1>0, <2>2 DEF SetSystemType, IInv, OneResetAtATime, ListingOnlyInLoop,
       ListedInTarget, FreshReadCurrent, NotifiedPending, NotifyOnlyOwed,
       LostRequestIsReported, ResetInFlight, RebuildPending
<1>3. ASSUME NEW w \in Workers, NEW n \in Namespaces, ResetPlatformClient(w, n)
      PROVE  IInv'
  <2>1. \A u \in Workers : pc[u] = "idle" /\ DOMAIN listed[u] = {}
    BY <1>3, NoneBusy DEF ResetPlatformClient, IInv
  <2>2. absClient' = [absClient EXCEPT ![n] = NoClient]
    BY <1>3, ResetRefines DEF IInv, Abstract!Reset
  <2>3. \A x \in Namespaces \ {n} : HasClient(x)' = HasClient(x)
    <3>1. \A x \in Namespaces \ {n} : GetPlatformClient(x)' = GetPlatformClient(x)
      BY <2>2 DEF absClient
    <3>2. QED
      BY <3>1 DEF HasClient
  <2>4. OneResetAtATime' /\ ListingOnlyInLoop' /\ ListedInTarget' /\ FreshReadCurrent'
        /\ NotifiedPending'
    BY <1>3, <2>1 DEF ResetPlatformClient, OneResetAtATime, ListingOnlyInLoop,
       ListedInTarget, FreshReadCurrent, NotifiedPending, IInv, TypeOK
  <2>5. NotifyOnlyOwed'
    <3>1. \A o \in ObjsIn(n) : owed'[o]
      BY <1>3 DEF ResetPlatformClient, ObjsIn
    <3>2. pc'[w] = "list" /\ target'[w] = n /\ \A u \in Workers \ {w} : pc'[u] = "idle"
      BY <1>3, <2>1 DEF ResetPlatformClient, IInv, TypeOK
    <3>3. QED
      BY <3>1, <3>2 DEF NotifyOnlyOwed
  <2>6. LostRequestIsReported'
    <3> SUFFICES ASSUME NEW x \in Namespaces, ~HasClient(x)', ~ResetInFlight(x)',
                        ObjsIn(x) # {}
                 PROVE  RebuildPending(x)' \/ resetErr'[x]
      BY DEF LostRequestIsReported
    <3>1. x # n
      BY <1>3 DEF ResetPlatformClient, ResetInFlight, IInv, TypeOK
    <3>2. ~ResetInFlight(x) /\ ~HasClient(x)
      BY <2>1, <2>3, <3>1 DEF ResetInFlight
    <3>3. QED
      BY <1>3, <3>1, <3>2 DEF ResetPlatformClient, IInv, LostRequestIsReported,
         RebuildPending, TypeOK
  <2>7. QED
    BY <1>0, <2>4, <2>5, <2>6 DEF IInv
<1>4. ASSUME NEW w \in Workers, NotifyList(w)
      PROVE  IInv'
  <2>1. \A x \in Namespaces : ResetInFlight(x)' = ResetInFlight(x)
    BY <1>4 DEF NotifyList, ResetInFlight, IInv, TypeOK
  <2>2. OneResetAtATime' /\ ListingOnlyInLoop' /\ ListedInTarget' /\ FreshReadCurrent'
        /\ NotifiedPending'
    BY <1>4, Alone DEF NotifyList, OneResetAtATime, ListingOnlyInLoop, ListedInTarget,
       FreshReadCurrent, NotifiedPending, IInv, TypeOK
  <2>3. NotifyOnlyOwed'
    BY <1>4 DEF NotifyList, NotifyOnlyOwed, IInv, TypeOK
  <2>4. LostRequestIsReported'
    BY <1>4, <2>1 DEF NotifyList, LostRequestIsReported, IInv, HasClient,
       GetPlatformClient, RebuildPending
  <2>5. QED
    BY <1>0, <2>2, <2>3, <2>4 DEF IInv
<1>5. ASSUME NEW w \in Workers, NotifyListFails(w)
      PROVE  IInv'
  BY <1>5, <1>0, ReturnIInv DEF NotifyListFails
<1>6. ASSUME NEW w \in Workers, NEW o \in SystemObjs, NotifyUpdate(w, o)
      PROVE  IInv'
  <2> DEFINE ann == listed[w][o].ann
             new == getNextCount(ann)
  <2>1. \A u \in Workers \ {w} : pc[u] = "idle" /\ DOMAIN listed[u] = {}
    BY <1>6, Alone DEF NotifyUpdate, IInv
  <2>2. o \in ObjsIn(target[w]) /\ ann = store[o] /\ ann \in Text
    BY <1>6 DEF NotifyUpdate, IInv, ListedInTarget, FreshReadCurrent, TypeOK,
       ListEntry, Annotation
  <2>3. sysEvent'[o]
    BY <1>6, <2>2, NextCountChanges DEF NotifyUpdate, TypeOK, IInv
  <2>4. \A x \in Namespaces : RebuildPending(x) => RebuildPending(x)'
    BY <1>6, <2>3, PendingKept DEF NotifyUpdate, IInv, TypeOK
  <2>5. RebuildPending(target[w])'
    BY <1>6, <2>2, <2>3 DEF NotifyUpdate, RebuildPending
  <2>6. OneResetAtATime' /\ ListingOnlyInLoop' /\ ListedInTarget'
    BY <1>6 DEF NotifyUpdate, OneResetAtATime, ListingOnlyInLoop, ListedInTarget, IInv,
       TypeOK
  <2>7. FreshReadCurrent'
    BY <1>6, <2>1 DEF NotifyUpdate, FreshReadCurrent, IInv, TypeOK
  <2>8. NotifiedPending'
    BY <1>6, <2>1, <2>5 DEF NotifyUpdate, NotifiedPending, IInv, TypeOK
  <2>9. NotifyOnlyOwed'
    BY <1>6, <2>1 DEF NotifyUpdate, NotifyOnlyOwed, IInv, TypeOK
  <2>10. LostRequestIsReported'
    <3>1. \A x \in Namespaces : ResetInFlight(x)' = ResetInFlight(x)
      BY <1>6 DEF NotifyUpdate, ResetInFlight
    <3>2. \A x \in Namespaces : HasClient(x)' = HasClient(x)
      BY <1>6 DEF NotifyUpdate, HasClient, GetPlatformClient
    <3>3. QED
      BY <1>6, <2>4, <3>1, <3>2 DEF NotifyUpdate, LostRequestIsReported, IInv
  <2>11. QED
    BY <1>0, <2>6, <2>7, <2>8, <2>9, <2>10 DEF IInv
<1>7. ASSUME NEW w \in Workers, NEW o \in SystemObjs, NotifyUpdateFails(w, o)
      PROVE  IInv'
  BY <1>7, <1>0, ReturnIInv DEF NotifyUpdateFails
<1>8. ASSUME NEW w \in Workers, NEW o \in SystemObjs, NotifyPanic(w, o)
      PROVE  IInv'
  BY <1>8, <1>0, CrashIInv DEF NotifyPanic
<1>9. ASSUME NEW w \in Workers, NotifyDone(w)
      PROVE  IInv'
  <2>1. ObjsIn(target[w]) # {} => RebuildPending(target[w])
    BY <1>9 DEF NotifyDone, NotifiedPending, IInv
  <2>2. QED
    BY <1>9, <1>0, <2>1, ReturnIInv DEF NotifyDone
<1>10. ASSUME NEW o \in SystemObjs, SysReconcile(o)
       PROVE  IInv'
  <2>1. \A u \in Workers : pc[u] = "idle" /\ DOMAIN listed[u] = {}
    BY <1>10, NoneBusy DEF SysReconcile, IInv
  <2>2. LostRequestIsReported'
    <3> SUFFICES ASSUME NEW x \in Namespaces, ~HasClient(x)', ObjsIn(x) # {}
                 PROVE  RebuildPending(x)' \/ resetErr'[x]
      BY DEF LostRequestIsReported
    <3>1. ~HasClient(x) /\ ~ResetInFlight(x)
      BY <1>10, <2>1 DEF SysReconcile, HasClient, GetPlatformClient, ResetInFlight
    <3>2. CASE x = SystemNs[o]
      <4>1. sysPc'[o] = "build" /\ o \in ObjsIn(x)
        BY <1>10, <3>1, <3>2 DEF SysReconcile, TypeOK, IInv, ObjsIn
      <4>2. QED
        BY <4>1 DEF RebuildPending
    <3>3. CASE x # SystemNs[o]
      <4>1. RebuildPending(x)' = RebuildPending(x)
        BY <1>10, <3>3 DEF SysReconcile, RebuildPending, ObjsIn, TypeOK, IInv
      <4>2. QED
        BY <1>10, <3>1, <4>1 DEF SysReconcile, IInv, LostRequestIsReported
    <3>4. QED
      BY <3>2, <3>3
  <2>3. QED
    BY <1>10, <1>0, <2>1, <2>2 DEF SysReconcile, IInv, OneResetAtATime, ListingOnlyInLoop,
       ListedInTarget, FreshReadCurrent, NotifiedPending, NotifyOnlyOwed
<1>11. ASSUME NEW o \in SystemObjs, NEW c \in Clients, SysBuild(o, c)
       PROVE  IInv'
  <2> DEFINE n == SystemNs[o]
  <2>1. \A u \in Workers : pc[u] = "idle" /\ DOMAIN listed[u] = {}
    BY <1>11, NoneBusy DEF SysBuild, IInv
  <2>2. absClient' = [absClient EXCEPT ![n] = c]
    BY <1>11, BuildRefines DEF IInv, Abstract!Build
  <2>3. HasClient(n)' /\ \A x \in Namespaces \ {n} : HasClient(x)' = HasClient(x)
    <3>1. /\ GetPlatformClient(n)' = c
          /\ \A x \in Namespaces \ {n} : GetPlatformClient(x)' = GetPlatformClient(x)
      BY <2>2 DEF absClient
    <3>2. QED
      BY <3>1, ConstantsAssumption DEF HasClient
  <2>4. LostRequestIsReported'
    <3> SUFFICES ASSUME NEW x \in Namespaces, ~HasClient(x)', ObjsIn(x) # {}
                 PROVE  RebuildPending(x)' \/ resetErr'[x]
      BY DEF LostRequestIsReported
    <3>1. x # n /\ ~HasClient(x) /\ ~ResetInFlight(x)
      BY <2>1, <2>3 DEF ResetInFlight
    <3>2. RebuildPending(x)' = RebuildPending(x)
      BY <1>11, <3>1 DEF SysBuild, RebuildPending, ObjsIn, TypeOK, IInv
    <3>3. QED
      BY <1>11, <3>1, <3>2 DEF SysBuild, IInv, LostRequestIsReported
  <2>5. QED
    BY <1>11, <1>0, <2>1, <2>4 DEF SysBuild, IInv, OneResetAtATime, ListingOnlyInLoop,
       ListedInTarget, FreshReadCurrent, NotifiedPending, NotifyOnlyOwed
<1>12. ASSUME NEW o \in SystemObjs, SysBuildFails(o)
       PROVE  IInv'
  <2>1. \A x \in Namespaces : RebuildPending(x) => RebuildPending(x)'
    BY <1>12, PendingKept DEF SysBuildFails, IInv, TypeOK
  <2>2. OneResetAtATime' /\ ListingOnlyInLoop' /\ ListedInTarget' /\ FreshReadCurrent'
    BY <1>12 DEF SysBuildFails, IInv, OneResetAtATime, ListingOnlyInLoop,
       ListedInTarget, FreshReadCurrent
  <2>3. NotifiedPending' /\ NotifyOnlyOwed'
    <3>1. pc' = pc /\ target' = target /\ owed' = owed
      BY <1>12 DEF SysBuildFails
    <3>2. \A u \in Workers : DOMAIN listed'[u] = DOMAIN listed[u]
      BY <1>12 DEF SysBuildFails
    <3>3. NotifiedPending'
      <4> SUFFICES ASSUME NEW u \in Workers, pc'[u] = "update",
                          ObjsIn(target'[u]) \ DOMAIN listed'[u] # {}
                   PROVE  RebuildPending(target[u])'
        BY <3>1 DEF NotifiedPending
      <4>1. RebuildPending(target[u]) /\ target[u] \in Namespaces
        BY <3>1, <3>2 DEF IInv, NotifiedPending, TypeOK
      <4>2. \E p \in ObjsIn(target[u]) : sysEvent'[p] \/ sysPc'[p] = "build"
        BY <4>1, <2>1 DEF RebuildPending
      <4>3. QED
        BY <4>2, <3>1 DEF RebuildPending
    <3>4. NotifyOnlyOwed'
      BY <3>1, <3>2 DEF IInv, NotifyOnlyOwed
    <3>5. QED
      BY <3>3, <3>4
  <2>9. LostRequestIsReported'
    <3> SUFFICES ASSUME NEW x \in Namespaces, ~HasClient(x)', ~ResetInFlight(x)',
                        ObjsIn(x) # {}
                 PROVE  RebuildPending(x)' \/ resetErr'[x]
      BY DEF LostRequestIsReported
    <3>1. ~HasClient(x) /\ ~ResetInFlight(x) /\ resetErr'[x] = resetErr[x]
      BY <1>12 DEF SysBuildFails, HasClient, GetPlatformClient, ResetInFlight
    <3>2. QED
      BY <2>1, <3>1 DEF IInv, LostRequestIsReported
  <2>10. QED
    BY <1>0, <2>2, <2>3, <2>9 DEF IInv
<1>13. ASSUME NEW o \in SystemObjs, SysStatus(o)
       PROVE  IInv'
  <2>1. \A x \in Namespaces : RebuildPending(x) => RebuildPending(x)'
    BY <1>13, PendingKept DEF SysStatus, IInv, TypeOK
  <2>2. \A u \in Workers : DOMAIN listed'[u] = DOMAIN listed[u]
    BY <1>13, InvalidateEffect DEF SysStatus, IInv
  <2>3. FreshReadCurrent'
    BY <1>13, InvalidateEffect DEF SysStatus, IInv, FreshReadCurrent
  <2>4. OneResetAtATime' /\ ListingOnlyInLoop' /\ ListedInTarget'
    BY <1>13, <2>2 DEF SysStatus, IInv, OneResetAtATime, ListingOnlyInLoop, ListedInTarget
  <2>5. NotifiedPending' /\ NotifyOnlyOwed'
    <3>1. pc' = pc /\ target' = target /\ owed' = owed
      BY <1>13 DEF SysStatus
    <3>2. \A u \in Workers : DOMAIN listed'[u] = DOMAIN listed[u]
      BY <1>13, <2>2 DEF SysStatus
    <3>3. NotifiedPending'
      <4> SUFFICES ASSUME NEW u \in Workers, pc'[u] = "update",
                          ObjsIn(target'[u]) \ DOMAIN listed'[u] # {}
                   PROVE  RebuildPending(target[u])'
        BY <3>1 DEF NotifiedPending
      <4>1. RebuildPending(target[u]) /\ target[u] \in Namespaces
        BY <3>1, <3>2 DEF IInv, NotifiedPending, TypeOK
      <4>2. \E p \in ObjsIn(target[u]) : sysEvent'[p] \/ sysPc'[p] = "build"
        BY <4>1, <2>1 DEF RebuildPending
      <4>3. QED
        BY <4>2, <3>1 DEF RebuildPending
    <3>4. NotifyOnlyOwed'
      BY <3>1, <3>2 DEF IInv, NotifyOnlyOwed
    <3>5. QED
      BY <3>3, <3>4
  <2>9. LostRequestIsReported'
    <3> SUFFICES ASSUME NEW x \in Namespaces, ~HasClient(x)', ~ResetInFlight(x)',
                        ObjsIn(x) # {}
                 PROVE  RebuildPending(x)' \/ resetErr'[x]
      BY DEF LostRequestIsReported
    <3>1. ~HasClient(x) /\ ~ResetInFlight(x) /\ resetErr'[x] = resetErr[x]
      BY <1>13 DEF SysStatus, HasClient, GetPlatformClient, ResetInFlight
    <3>2. QED
      BY <2>1, <3>1 DEF IInv, LostRequestIsReported
  <2>10. QED
    BY <1>0, <2>3, <2>4, <2>5, <2>9 DEF IInv
<1>14. ASSUME NEW o \in SystemObjs, NEW a \in EditValues, UserEdit(o, a)
       PROVE  IInv'
  <2>1. \A x \in Namespaces : RebuildPending(x) => RebuildPending(x)'
    BY <1>14, PendingKept DEF UserEdit, IInv, TypeOK
  <2>2. \A u \in Workers : DOMAIN listed'[u] = DOMAIN listed[u]
    BY <1>14, InvalidateEffect DEF UserEdit, IInv
  <2>3. FreshReadCurrent'
    BY <1>14, InvalidateEffect DEF UserEdit, IInv, FreshReadCurrent, TypeOK
  <2>4. OneResetAtATime' /\ ListingOnlyInLoop' /\ ListedInTarget'
    BY <1>14, <2>2 DEF UserEdit, IInv, OneResetAtATime, ListingOnlyInLoop, ListedInTarget
  <2>5. NotifiedPending' /\ NotifyOnlyOwed'
    <3>1. pc' = pc /\ target' = target /\ owed' = owed
      BY <1>14 DEF UserEdit
    <3>2. \A u \in Workers : DOMAIN listed'[u] = DOMAIN listed[u]
      BY <1>14, <2>2 DEF UserEdit
    <3>3. NotifiedPending'
      <4> SUFFICES ASSUME NEW u \in Workers, pc'[u] = "update",
                          ObjsIn(target'[u]) \ DOMAIN listed'[u] # {}
                   PROVE  RebuildPending(target[u])'
        BY <3>1 DEF NotifiedPending
      <4>1. RebuildPending(target[u]) /\ target[u] \in Namespaces
        BY <3>1, <3>2 DEF IInv, NotifiedPending, TypeOK
      <4>2. \E p \in ObjsIn(target[u]) : sysEvent'[p] \/ sysPc'[p] = "build"
        BY <4>1, <2>1 DEF RebuildPending
      <4>3. QED
        BY <4>2, <3>1 DEF RebuildPending
    <3>4. NotifyOnlyOwed'
      BY <3>1, <3>2 DEF IInv, NotifyOnlyOwed
    <3>5. QED
      BY <3>3, <3>4
  <2>9. LostRequestIsReported'
    <3> SUFFICES ASSUME NEW x \in Namespaces, ~HasClient(x)', ~ResetInFlight(x)',
                        ObjsIn(x) # {}
                 PROVE  RebuildPending(x)' \/ resetErr'[x]
      BY DEF LostRequestIsReported
    <3>1. ~HasClient(x) /\ ~ResetInFlight(x) /\ resetErr'[x] = resetErr[x]
      BY <1>14 DEF UserEdit, HasClient, GetPlatformClient, ResetInFlight
    <3>2. QED
      BY <2>1, <3>1 DEF IInv, LostRequestIsReported
  <2>10. QED
    BY <1>0, <2>3, <2>4, <2>5, <2>9 DEF IInv
<1>15. ASSUME Restart
       PROVE  IInv'
  BY <1>15, <1>0, CrashIInv DEF Restart
<1>16. CASE UNCHANGED vars
  BY <1>16, <1>0 DEF vars, IInv, OneResetAtATime, ListingOnlyInLoop, ListedInTarget,
     FreshReadCurrent, NotifiedPending, NotifyOnlyOwed, LostRequestIsReported,
     ResetInFlight, HasClient, GetPlatformClient, RebuildPending
<1>17. QED
  BY <1>1, <1>2, <1>3, <1>4, <1>5, <1>6, <1>7, <1>8, <1>9, <1>10, <1>11, <1>12,
     <1>13, <1>14, <1>15, <1>16 DEF Next, ResetStep

(***************************************************************************)
(* For every number of namespaces, workers, Systems and clients,           *)
(* ResetPlatformClient only notifies Systems that are owed a notification  *)
(* by the clearing of a live client (manager.go 318-336): the "already     *)
(* reset" return at 324-326 keeps a second Reset from notifying again.     *)
(***************************************************************************)
THEOREM NotifyOnlyOwedHolds == Spec => []NotifyOnlyOwed
<1>1. IInv => NotifyOnlyOwed
  BY DEF IInv
<1>2. QED
  BY InitIInv, NextIInv, <1>1, PTL DEF Spec

(***************************************************************************)
(* For every number of namespaces, workers, Systems and clients: when a    *)
(* namespace with Systems has no client and no ResetPlatformClient is      *)
(* working on it, a rebuild is pending for it or a Reset of it has         *)
(* returned an error (manager.go 153-157, 165-169).  The lost rebuild of   *)
(* NoLostRebuildRequest is therefore always reported to a caller.          *)
(***************************************************************************)
THEOREM LostRequestIsReportedHolds == Spec => []LostRequestIsReported
<1>1. IInv => LostRequestIsReported
  BY DEF IInv
<1>2. QED
  BY InitIInv, NextIInv, <1>1, PTL DEF Spec
=============================================================================
