------------------------ MODULE PlatformRegistry_proofs ------------------------
(***************************************************************************)
(* Proofs about the SystemNamespace registry model, for every value of the *)
(* constants that ConstantsAssumption and IntWidthAssumption allow.        *)
(***************************************************************************)
EXTENDS PlatformRegistry, NotificationCount_proofs

USE ConstantsAssumption, IntWidthAssumption, ModulusAssumption

-----------------------------------------------------------------------------
(* Lemmas about the operators the model is built from.                     *)

\* The values a user may write are annotations.
LEMMA EditValuesType == EditValues \subseteq Annotation
  BY IntBounds DEF EditValues, Annotation, Text, TextForms, NilMap, JunkText, Itoa

\* Marking a read stale keeps it a read.
LEMMA StaleEntryType ==
    ASSUME NEW e \in ListEntry
    PROVE  [e EXCEPT !.fresh = FALSE] \in ListEntry
  BY DEF ListEntry

\* Invalidate keeps the shape of every worker's listing.
LEMMA InvalidateType ==
    ASSUME NEW o,
           DOMAIN listed = Workers,
           \A w \in Workers : \A p \in DOMAIN listed[w] : listed[w][p] \in ListEntry
    PROVE  /\ DOMAIN Invalidate(o) = Workers
           /\ \A w \in Workers : DOMAIN Invalidate(o)[w] = DOMAIN listed[w]
           /\ \A w \in Workers : \A p \in DOMAIN listed[w] : Invalidate(o)[w][p] \in ListEntry
<1>1. \A w \in Workers : \A p \in DOMAIN listed[w] :
        Invalidate(o)[w][p] = IF p = o THEN [listed[w][p] EXCEPT !.fresh = FALSE] ELSE listed[w][p]
  BY DEF Invalidate
<1>2. QED
  BY <1>1, StaleEntryType DEF Invalidate

-----------------------------------------------------------------------------
(* Type correctness.                                                       *)

\* The start of the process (and of the model) satisfies TypeOK.
LEMMA InitTypeOK == Init => TypeOK
  BY DEF Init, InitRegistry, TypeOK, NoListing, ListEntry, Annotation, Text, TextForms,
         NilMap, EmptyText

\* A crash leaves every in-memory variable at its start value.
LEMMA CrashTypeOK ==
    ASSUME TypeOK, Crash, restarts' \in 0 .. MaxRestarts
    PROVE  TypeOK'
  BY DEF Crash, TypeOK, NoListing

\* The cleared listing a returning ResetPlatformClient leaves.
LEMMA ReturnTypeOK ==
    ASSUME TypeOK, NEW w \in Workers, NEW f \in BOOLEAN, ResetReturns(w, f),
           UNCHANGED <<systems, target, store, sysEvent, sysPc, owed, restarts>>
    PROVE  TypeOK'
  BY DEF ResetReturns, TypeOK

\* Every step of the model keeps TypeOK.
LEMMA NextTypeOK == TypeOK /\ [Next]_vars => TypeOK'
<1> SUFFICES ASSUME TypeOK, [Next]_vars PROVE TypeOK'
  OBVIOUS
<1>1. ASSUME NEW w \in Workers, NEW n \in Namespaces, NEW v \in BOOLEAN, SetSystemReady(w, n, v)
      PROVE  TypeOK'
  BY <1>1 DEF SetSystemReady, AddEntry, TypeOK, Entry
<1>2. ASSUME NEW w \in Workers, NEW n \in Namespaces, NEW t \in SystemTypes, SetSystemType(w, n, t)
      PROVE  TypeOK'
  BY <1>2 DEF SetSystemType, AddEntry, TypeOK, Entry
<1>3. ASSUME NEW w \in Workers, NEW n \in Namespaces, ResetPlatformClient(w, n)
      PROVE  TypeOK'
  BY <1>3 DEF ResetPlatformClient, TypeOK, Entry
<1>4. ASSUME NEW w \in Workers, NotifyList(w)
      PROVE  TypeOK'
  BY <1>4 DEF NotifyList, TypeOK, ListEntry, ObjsIn
<1>5. ASSUME NEW w \in Workers, NotifyListFails(w)
      PROVE  TypeOK'
  BY <1>5, ReturnTypeOK DEF NotifyListFails
<1>6. ASSUME NEW w \in Workers, NEW o \in SystemObjs, NotifyUpdate(w, o)
      PROVE  TypeOK'
  <2>1. getNextCount(listed[w][o].ann) \in Annotation
    BY NextCountType DEF Annotation
  <2>2. QED
    BY <1>6, <2>1 DEF NotifyUpdate, TypeOK
<1>7. ASSUME NEW w \in Workers, NEW o \in SystemObjs, NotifyUpdateFails(w, o)
      PROVE  TypeOK'
  BY <1>7, ReturnTypeOK DEF NotifyUpdateFails
<1>8. ASSUME NEW w \in Workers, NEW o \in SystemObjs, NotifyPanic(w, o)
      PROVE  TypeOK'
  BY <1>8, CrashTypeOK DEF NotifyPanic, TypeOK
<1>9. ASSUME NEW w \in Workers, NotifyDone(w)
      PROVE  TypeOK'
  BY <1>9, ReturnTypeOK DEF NotifyDone
<1>10. ASSUME NEW o \in SystemObjs, SysReconcile(o)
       PROVE  TypeOK'
  BY <1>10 DEF SysReconcile, TypeOK
<1>11. ASSUME NEW o \in SystemObjs, NEW c \in Clients, SysBuild(o, c)
       PROVE  TypeOK'
  BY <1>11 DEF SysBuild, AddEntry, TypeOK, Entry
<1>12. ASSUME NEW o \in SystemObjs, SysBuildFails(o)
       PROVE  TypeOK'
  BY <1>12 DEF SysBuildFails, TypeOK
<1>13. ASSUME NEW o \in SystemObjs, SysStatus(o)
       PROVE  TypeOK'
  <2>1. \A w \in Workers : \A p \in DOMAIN listed[w] : listed[w][p] \in ListEntry
    BY DEF TypeOK
  <2>2. QED
    BY <1>13, <2>1, InvalidateType DEF SysStatus, TypeOK
<1>14. ASSUME NEW o \in SystemObjs, NEW a \in EditValues, UserEdit(o, a)
       PROVE  TypeOK'
  <2>1. \A w \in Workers : \A p \in DOMAIN listed[w] : listed[w][p] \in ListEntry
    BY DEF TypeOK
  <2>2. QED
    BY <1>14, <2>1, InvalidateType, EditValuesType DEF UserEdit, TypeOK
<1>15. ASSUME Restart
       PROVE  TypeOK'
  BY <1>15, CrashTypeOK DEF Restart, TypeOK
<1>16. CASE UNCHANGED vars
  BY <1>16 DEF vars, TypeOK
<1>17. QED
  BY <1>1, <1>2, <1>3, <1>4, <1>5, <1>6, <1>7, <1>8, <1>9, <1>10, <1>11, <1>12,
     <1>13, <1>14, <1>15, <1>16 DEF Next, ResetStep

(***************************************************************************)
(* Every reachable state of the registry is well typed: m.systems maps     *)
(* namespaces to complete SystemNamespace entries, the lock has one holder *)
(* or none, every listing of NotifySystemController holds annotations the  *)
(* store had, and getNextCount never yields anything but an annotation.   *)
(***************************************************************************)
THEOREM TypeCorrect == Spec => []TypeOK
  BY InitTypeOK, NextTypeOK, PTL DEF Spec

-----------------------------------------------------------------------------
(* The registry implements the abstract per-field registers.               *)

absVars == <<absClient, absReady, absType>>

\* A step that leaves m.systems alone is a stutter of the abstract registers.
LEMMA SystemsUnchanged ==
    ASSUME systems' = systems
    PROVE  UNCHANGED absVars
  BY DEF absVars, absClient, absReady, absType, GetPlatformClient, GetSystemReady, GetSystemType

\* Emptying m.systems forgets every register.
LEMMA SystemsCleared ==
    ASSUME systems' = [x \in {} |-> TRUE]
    PROVE  Abstract!Forget
  BY DEF Abstract!Forget, Abstract!Init, absClient, absReady, absType,
         GetPlatformClient, GetSystemReady, GetSystemType

\* The start of the process is the start of the abstract registers.
LEMMA InitRefines == Init => Abstract!Init
  BY DEF Init, InitRegistry, Abstract!Init, absClient, absReady, absType,
         GetPlatformClient, GetSystemReady, GetSystemType

\* An entry is the record of its three fields.
LEMMA EntryFields ==
    ASSUME NEW e \in Entry
    PROVE  e = [client |-> e.client, ready |-> e.ready, systemType |-> e.systemType]
  BY DEF Entry

\* A write of namespace n's entry leaves what the others read as it was.
LEMMA OthersUnchanged ==
    ASSUME NEW n \in Namespaces,
           DOMAIN systems' = DOMAIN systems \cup {n},
           \A x \in DOMAIN systems \ {n} : systems'[x] = systems[x]
    PROVE  \A x \in Namespaces \ {n} :
             /\ GetPlatformClient(x)' = GetPlatformClient(x)
             /\ GetSystemReady(x)' = GetSystemReady(x)
             /\ GetSystemType(x)' = GetSystemType(x)
  BY DEF GetPlatformClient, GetSystemReady, GetSystemType

\* The abstract registers after a write of n, from what is read of n.
LEMMA RegistersAfterWrite ==
    ASSUME NEW n \in Namespaces,
           DOMAIN systems' = DOMAIN systems \cup {n},
           \A x \in DOMAIN systems \ {n} : systems'[x] = systems[x]
    PROVE  /\ absClient' = [absClient EXCEPT ![n] = GetPlatformClient(n)']
           /\ absReady' = [absReady EXCEPT ![n] = GetSystemReady(n)']
           /\ absType' = [absType EXCEPT ![n] = GetSystemType(n)']
  BY OthersUnchanged DEF absClient, absReady, absType

\* Updating one field of an existing entry: what the other fields read.
LEMMA FieldWrite ==
    ASSUME TypeOK, NEW n \in DOMAIN systems, NEW e \in Entry,
           systems' = [systems EXCEPT ![n] = e]
    PROVE  /\ DOMAIN systems' = DOMAIN systems \cup {n}
           /\ \A x \in DOMAIN systems \ {n} : systems'[x] = systems[x]
           /\ GetPlatformClient(n)' = e.client
           /\ GetSystemReady(n)' = e.ready
           /\ GetSystemType(n)' = e.systemType
  BY DEF GetPlatformClient, GetSystemReady, GetSystemType

\* Creating the entry of a namespace that had none.
LEMMA EntryCreate ==
    ASSUME TypeOK, NEW n \in Namespaces \ DOMAIN systems, NEW e \in Entry,
           systems' = AddEntry(n, e)
    PROVE  /\ DOMAIN systems' = DOMAIN systems \cup {n}
           /\ \A x \in DOMAIN systems \ {n} : systems'[x] = systems[x]
           /\ GetPlatformClient(n)' = e.client
           /\ GetSystemReady(n)' = e.ready
           /\ GetSystemType(n)' = e.systemType
           /\ GetPlatformClient(n) = NoClient
           /\ GetSystemReady(n) = FALSE
           /\ GetSystemType(n) = TypeUnset
  BY DEF AddEntry, GetPlatformClient, GetSystemReady, GetSystemType

\* SetSystemReady writes the abstract readiness register of its namespace.
LEMMA SetReadyRefines ==
    ASSUME TypeOK, NEW w \in Workers, NEW n \in Namespaces, NEW v \in BOOLEAN, SetSystemReady(w, n, v)
    PROVE  Abstract!SetReady(n, v)
<1>1. /\ DOMAIN systems' = DOMAIN systems \cup {n}
      /\ \A x \in DOMAIN systems \ {n} : systems'[x] = systems[x]
      /\ GetPlatformClient(n)' = GetPlatformClient(n)
      /\ GetSystemReady(n)' = v
      /\ GetSystemType(n)' = GetSystemType(n)
  <2>1. CASE n \in DOMAIN systems
    <3>1. [systems[n] EXCEPT !.ready = v]
            = [client |-> systems[n].client, ready |-> v, systemType |-> systems[n].systemType]
      <4>1. systems[n] = [client |-> systems[n].client, ready |-> systems[n].ready,
                          systemType |-> systems[n].systemType]
        BY <2>1, EntryFields DEF TypeOK
      <4>2. QED
        BY <4>1
    <3>2. systems' = [systems EXCEPT ![n] = [client |-> systems[n].client, ready |-> v, systemType |-> systems[n].systemType]]
      BY <2>1, <3>1 DEF SetSystemReady
    <3>3. [client |-> systems[n].client, ready |-> v, systemType |-> systems[n].systemType] \in Entry
      BY <2>1 DEF TypeOK, Entry
    <3>4. QED
      BY <2>1, <3>2, <3>3, FieldWrite DEF GetPlatformClient, GetSystemType
  <2>2. CASE n \notin DOMAIN systems
    <3>1. systems' = AddEntry(n, [client |-> NoClient, ready |-> v, systemType |-> TypeUnset])
      BY <2>2 DEF SetSystemReady
    <3>2. [client |-> NoClient, ready |-> v, systemType |-> TypeUnset] \in Entry
      BY DEF Entry
    <3>3. QED
      BY <2>2, <3>1, <3>2, EntryCreate
  <2>3. QED
    BY <2>1, <2>2
<1>2. QED
  BY <1>1, RegistersAfterWrite DEF Abstract!SetReady, absClient, absType

\* SetSystemType writes the abstract system-type register of its namespace.
LEMMA SetTypeRefines ==
    ASSUME TypeOK, NEW w \in Workers, NEW n \in Namespaces, NEW t \in SystemTypes, SetSystemType(w, n, t)
    PROVE  Abstract!SetType(n, t)
<1>1. /\ DOMAIN systems' = DOMAIN systems \cup {n}
      /\ \A x \in DOMAIN systems \ {n} : systems'[x] = systems[x]
      /\ GetPlatformClient(n)' = GetPlatformClient(n)
      /\ GetSystemReady(n)' = GetSystemReady(n)
      /\ GetSystemType(n)' = t
  <2>1. CASE n \in DOMAIN systems
    <3>1. [systems[n] EXCEPT !.systemType = t]
            = [client |-> systems[n].client, ready |-> systems[n].ready, systemType |-> t]
      <4>1. systems[n] = [client |-> systems[n].client, ready |-> systems[n].ready,
                          systemType |-> systems[n].systemType]
        BY <2>1, EntryFields DEF TypeOK
      <4>2. QED
        BY <4>1
    <3>2. systems' = [systems EXCEPT ![n] = [client |-> systems[n].client, ready |-> systems[n].ready, systemType |-> t]]
      BY <2>1, <3>1 DEF SetSystemType
    <3>3. [client |-> systems[n].client, ready |-> systems[n].ready, systemType |-> t] \in Entry
      BY <2>1 DEF TypeOK, Entry, SystemTypes
    <3>4. QED
      BY <2>1, <3>2, <3>3, FieldWrite DEF GetPlatformClient, GetSystemReady, SystemTypes
  <2>2. CASE n \notin DOMAIN systems
    <3>1. systems' = AddEntry(n, [client |-> NoClient, ready |-> FALSE, systemType |-> t])
      BY <2>2 DEF SetSystemType
    <3>2. [client |-> NoClient, ready |-> FALSE, systemType |-> t] \in Entry
      BY DEF Entry, SystemTypes
    <3>3. QED
      BY <2>2, <3>1, <3>2, EntryCreate
  <2>3. QED
    BY <2>1, <2>2
<1>2. QED
  BY <1>1, RegistersAfterWrite DEF Abstract!SetType, absClient, absReady

\* A clearing ResetPlatformClient discards the abstract client of its namespace.
LEMMA ResetRefines ==
    ASSUME TypeOK, NEW w \in Workers, NEW n \in Namespaces, ResetPlatformClient(w, n)
    PROVE  Abstract!Reset(n)
  BY DEF ResetPlatformClient, Abstract!Reset, TypeOK, Entry,
         absClient, absReady, absType, GetPlatformClient, GetSystemReady, GetSystemType

\* A successful build stores the abstract client of the System's namespace.
LEMMA BuildRefines ==
    ASSUME TypeOK, NEW o \in SystemObjs, NEW c \in Clients, NEW n \in Namespaces, n = SystemNs[o],
           SysBuild(o, c)
    PROVE  Abstract!Build(n, c)
<1>0. n \in Namespaces
  OBVIOUS
<1>1. /\ DOMAIN systems' = DOMAIN systems \cup {n}
      /\ \A x \in DOMAIN systems \ {n} : systems'[x] = systems[x]
      /\ GetPlatformClient(n)' = c
      /\ GetSystemReady(n)' = GetSystemReady(n)
      /\ GetSystemType(n)' = GetSystemType(n)
  <2>1. CASE n \in DOMAIN systems
    <3>1. [systems[n] EXCEPT !.client = c]
            = [client |-> c, ready |-> systems[n].ready, systemType |-> systems[n].systemType]
      <4>1. systems[n] = [client |-> systems[n].client, ready |-> systems[n].ready,
                          systemType |-> systems[n].systemType]
        BY <2>1, EntryFields DEF TypeOK
      <4>2. QED
        BY <4>1
    <3>2. systems' = [systems EXCEPT ![n] = [client |-> c, ready |-> systems[n].ready, systemType |-> systems[n].systemType]]
      BY <2>1, <3>1 DEF SysBuild
    <3>3. [client |-> c, ready |-> systems[n].ready, systemType |-> systems[n].systemType] \in Entry
      BY <2>1 DEF TypeOK, Entry
    <3>4. QED
      <4> DEFINE e == [client |-> c, ready |-> systems[n].ready, systemType |-> systems[n].systemType]
      <4>1. /\ DOMAIN systems' = DOMAIN systems \cup {n}
            /\ \A x \in DOMAIN systems \ {n} : systems'[x] = systems[x]
            /\ GetPlatformClient(n)' = e.client
            /\ GetSystemReady(n)' = e.ready
            /\ GetSystemType(n)' = e.systemType
        BY <2>1, <3>2, <3>3, FieldWrite
      <4>2. QED
        BY <2>1, <4>1 DEF GetSystemReady, GetSystemType
  <2>2. CASE n \notin DOMAIN systems
    <3>1. systems' = AddEntry(n, [client |-> c, ready |-> FALSE, systemType |-> TypeUnset])
      BY <2>2 DEF SysBuild
    <3>2. [client |-> c, ready |-> FALSE, systemType |-> TypeUnset] \in Entry
      BY DEF Entry
    <3>3. QED
      BY <1>0, <2>2, <3>1, <3>2, EntryCreate
  <2>3. QED
    BY <2>1, <2>2
<1>2. QED
  BY <1>0, <1>1, RegistersAfterWrite DEF Abstract!Build, absReady, absType

\* Every step of the registry is a step of the abstract registers or none.
LEMMA NextRefines == TypeOK /\ [Next]_vars => [Abstract!Next]_absVars
<1> SUFFICES ASSUME TypeOK, [Next]_vars PROVE [Abstract!Next]_absVars
  OBVIOUS
<1>1. ASSUME NEW w \in Workers, NEW n \in Namespaces, NEW v \in BOOLEAN, SetSystemReady(w, n, v)
      PROVE  Abstract!SetReady(n, v)
  BY <1>1, SetReadyRefines
<1>2. ASSUME NEW w \in Workers, NEW n \in Namespaces, NEW t \in SystemTypes, SetSystemType(w, n, t)
      PROVE  Abstract!SetType(n, t)
  BY <1>2, SetTypeRefines
<1>3. ASSUME NEW w \in Workers, NEW n \in Namespaces, ResetPlatformClient(w, n)
      PROVE  Abstract!Reset(n)
  BY <1>3, ResetRefines
<1>4. ASSUME NEW o \in SystemObjs, NEW c \in Clients, NEW n \in Namespaces, n = SystemNs[o],
             SysBuild(o, c)
      PROVE  Abstract!Build(n, c)
  BY <1>4, BuildRefines
<1>5. ASSUME NEW w \in Workers, NEW o \in SystemObjs, NotifyPanic(w, o)
      PROVE  Abstract!Forget
  BY <1>5, SystemsCleared DEF NotifyPanic, Crash
<1>6. ASSUME Restart
      PROVE  Abstract!Forget
  BY <1>6, SystemsCleared DEF Restart, Crash
<1>7. ASSUME systems' = systems
      PROVE  [Abstract!Next]_absVars
  BY <1>7, SystemsUnchanged
<1>8. QED
  <2>1. CASE \E w \in Workers : ResetStep(w)
    <3>1. PICK w \in Workers : ResetStep(w)
      BY <2>1
    <3>2. CASE \E o \in SystemObjs : NotifyPanic(w, o)
      BY <3>2, <1>5 DEF Abstract!Next
    <3>3. CASE ~\E o \in SystemObjs : NotifyPanic(w, o)
      <4>1. systems' = systems
        BY <3>1, <3>3 DEF ResetStep, NotifyList, NotifyListFails, NotifyUpdate,
                            NotifyUpdateFails, NotifyDone
      <4>2. QED
        BY <4>1, <1>7
    <3>4. QED
      BY <3>2, <3>3
  <2>2. CASE \E w \in Workers, n \in Namespaces, v \in BOOLEAN : SetSystemReady(w, n, v)
    BY <2>2, <1>1 DEF Abstract!Next
  <2>3. CASE \E w \in Workers, n \in Namespaces, t \in SystemTypes : SetSystemType(w, n, t)
    BY <2>3, <1>2 DEF Abstract!Next
  <2>4. CASE \E w \in Workers, n \in Namespaces : ResetPlatformClient(w, n)
    BY <2>4, <1>3 DEF Abstract!Next
  <2>5. CASE \E o \in SystemObjs, c \in Clients : SysBuild(o, c)
    <3>1. PICK o \in SystemObjs, c \in Clients : SysBuild(o, c)
      BY <2>5
    <3>2. Abstract!Build(SystemNs[o], c)
      BY <3>1, <1>4
    <3>3. QED
      BY <3>2 DEF Abstract!Next
  <2>6. CASE Restart
    BY <2>6, <1>6 DEF Abstract!Next
  <2>7. CASE \E o \in SystemObjs : SysReconcile(o) \/ SysBuildFails(o) \/ SysStatus(o)
                                   \/ \E a \in EditValues : UserEdit(o, a)
    BY <2>7, <1>7 DEF SysReconcile, SysBuildFails, SysStatus, UserEdit
  <2>8. CASE UNCHANGED vars
    BY <2>8, <1>7 DEF vars
  <2>9. QED
    BY <2>1, <2>2, <2>3, <2>4, <2>5, <2>6, <2>7, <2>8 DEF Next

(***************************************************************************)
(* Whatever interleaving of SetSystemReady, SetSystemType,                 *)
(* ResetPlatformClient, client builds and restarts happens, the registry   *)
(* behaves as three independent registers per namespace: no write of one   *)
(* field disturbs another, and the create-on-first-write branches merge.   *)
(***************************************************************************)
THEOREM RegistryRefinement == Spec => RegistryRefinesAbstract
<1>1. [][Next]_vars /\ []TypeOK => [][Abstract!Next]_absVars
  BY NextRefines, PTL
<1>2. QED
  BY InitRefines, <1>1, TypeCorrect, PTL
     DEF Spec, RegistryRefinesAbstract, Abstract!Spec, Abstract!avars, absVars

=============================================================================
