------------------------- MODULE GlobalHelperProofs -------------------------
(***************************************************************************)
(* Proofs about GlobalHelper, for any set of goroutines and any number of  *)
(* calls.                                                                  *)
(***************************************************************************)
EXTENDS GlobalHelper, TLAPS

USE DEF Ctors, Helpers

\* Every variable keeps its type through every step of every goroutine.
LEMMA TypeStep == TypeOK /\ [Next]_vars => TypeOK'
  <1> SUFFICES ASSUME TypeOK, [Next]_vars PROVE TypeOK'
      OBVIOUS
  <1> USE DEF TypeOK
  <1>1. ASSUME NEW c \in Callers, NewGlobalHelper(c) PROVE TypeOK'
      BY <1>1, MaxCallsAssumption DEF NewGlobalHelper, Call
  <1>2. ASSUME NEW c \in Callers, NewGlobalHelperWithoutDnsService(c) PROVE TypeOK'
      BY <1>2, MaxCallsAssumption DEF NewGlobalHelperWithoutDnsService, Call
  <1>3. ASSUME NEW c \in Callers, OnceEnter(c) PROVE TypeOK'
      BY <1>3 DEF OnceEnter
  <1>4. ASSUME NEW c \in Callers, OnceSkip(c) PROVE TypeOK'
      BY <1>4 DEF OnceSkip
  <1>5. ASSUME NEW c \in Callers, NEW k \in Ctors, BuildOk(c, k) PROVE TypeOK'
      BY <1>5 DEF BuildOk
  <1>6. ASSUME NEW c \in Callers, NEW k \in Ctors, BuildFails(c, k) PROVE TypeOK'
      BY <1>6 DEF BuildFails
  <1>7. ASSUME NEW c \in Callers, OnceExit(c) PROVE TypeOK'
      BY <1>7 DEF OnceExit
  <1>8. ASSUME NEW c \in Callers, Return(c) PROVE TypeOK'
      BY <1>8 DEF Return
  <1>9. ASSUME NEW c \in Callers, GetGlobalHelper(c) PROVE TypeOK'
      BY <1>9 DEF GetGlobalHelper
  <1>10. CASE UNCHANGED vars
      BY <1>10 DEF vars
  <1> QED
      BY <1>1, <1>2, <1>3, <1>4, <1>5, <1>6, <1>7, <1>8, <1>9, <1>10
      DEF Next, Step, Build, NewHelper, NewHelperWithoutDnsService

\* The package variable, the sync.Once and the goroutines' locals are always
\* of their declared types.
THEOREM TypeCorrect == Spec => []TypeOK
  <1>1. Init => TypeOK
      BY MaxCallsAssumption DEF Init, TypeOK
  <1> QED
      BY <1>1, TypeStep, PTL DEF Spec

-----------------------------------------------------------------------------

\* OnceInv is inductive.
LEMMA OnceStep == TypeOK /\ OnceInv /\ [Next]_vars => OnceInv'
  <1> SUFFICES ASSUME TypeOK, OnceInv, [Next]_vars PROVE OnceInv'
      OBVIOUS
  <1> USE HelpersAssumption DEF TypeOK, OnceInv, InFlight
  <1>1. ASSUME NEW c \in Callers, NEW k \in Ctors, Call(c, k) PROVE OnceInv'
      BY <1>1 DEF Call
  <1>3. ASSUME NEW c \in Callers, OnceEnter(c) PROVE OnceInv'
      BY <1>3 DEF OnceEnter
  <1>4. ASSUME NEW c \in Callers, OnceSkip(c) PROVE OnceInv'
      BY <1>4 DEF OnceSkip
  <1>5. ASSUME NEW c \in Callers, NEW k \in Ctors, BuildOk(c, k) PROVE OnceInv'
      BY <1>5 DEF BuildOk
  <1>6. ASSUME NEW c \in Callers, NEW k \in Ctors, BuildFails(c, k) PROVE OnceInv'
      BY <1>6 DEF BuildFails
  <1>7. ASSUME NEW c \in Callers, OnceExit(c) PROVE OnceInv'
      BY <1>7 DEF OnceExit
  <1>8. ASSUME NEW c \in Callers, Return(c) PROVE OnceInv'
      BY <1>8 DEF Return
  <1>9. ASSUME NEW c \in Callers, GetGlobalHelper(c) PROVE OnceInv'
      BY <1>9 DEF GetGlobalHelper
  <1>10. CASE UNCHANGED vars
      BY <1>10 DEF vars
  <1> QED
      BY <1>1, <1>3, <1>4, <1>5, <1>6, <1>7, <1>8, <1>9, <1>10
      DEF Next, Step, Build, NewHelper, NewHelperWithoutDnsService,
          NewGlobalHelper, NewGlobalHelperWithoutDnsService

\* The phases of the sync.Once bound what the one build has done.
THEOREM OnceInvariant == Spec => [](TypeOK /\ OnceInv)
  <1>1. Init => TypeOK /\ OnceInv
      BY MaxCallsAssumption, HelpersAssumption DEF Init, TypeOK, OnceInv, InFlight
  <1>2. (TypeOK /\ OnceInv) /\ [Next]_vars => (TypeOK /\ OnceInv)'
      BY TypeStep, OnceStep
  <1> QED
      BY <1>1, <1>2, PTL DEF Spec

\* A constructor that has returned, whatever it returned, leaves the fate of
\* the helper settled: built, or failed in the one build there will ever be.
THEOREM SettledAfterReturn == Spec => []ReturnMeansSettled
  <1>1. TypeOK /\ OnceInv => ReturnMeansSettled
      BY DEF TypeOK, OnceInv, ReturnMeansSettled
  <1> QED
      BY <1>1, OnceInvariant, PTL

\* The error of the failed build is seen by one goroutine at most; the others
\* are told nil.
THEOREM OneErrorOnly == Spec => []ErrorReachesOneCaller
  <1>1. TypeOK /\ OnceInv => ErrorReachesOneCaller
      BY DEF TypeOK, OnceInv, ErrorReachesOneCaller
  <1> QED
      BY <1>1, OnceInvariant, PTL

\* All goroutines that read a helper read the same one, although the reads are
\* not synchronised with the build.
THEOREM OneHelperOnly == Spec => []ReadersAgree
  <1>1. TypeOK /\ OnceInv => ReadersAgree
      BY DEF TypeOK, OnceInv, ReadersAgree
  <1> QED
      BY <1>1, OnceInvariant, PTL

\* Whatever the goroutines do, they agree on the one helper and its one error.
THEOREM AllAgree == Spec => []CallersAgree
  <1>1. ReturnMeansSettled /\ ErrorReachesOneCaller /\ ReadersAgree => CallersAgree
      BY DEF CallersAgree
  <1> QED
      BY <1>1, SettledAfterReturn, OneErrorOnly, OneHelperOnly, PTL

-----------------------------------------------------------------------------

\* The package variable under its sync.Once is a write-once cell: no step, of
\* any goroutine, changes the helper or the verdict once there is one.
THEOREM RefinesOnceCell == Spec => ImplementsOnceCell
  <1>1. Init => Cell!Init
      BY DEF Init, Cell!Init, CellValue
  <1>2. TypeOK /\ OnceInv /\ [Next]_vars => [Cell!Next]_CellValue
    <2> SUFFICES ASSUME TypeOK, OnceInv, [Next]_vars
                 PROVE  [Cell!Next]_CellValue
        OBVIOUS
    <2> USE HelpersAssumption DEF TypeOK, OnceInv, CellValue
    <2>1. ASSUME NEW c \in Callers, NEW k \in Ctors, BuildOk(c, k)
          PROVE  Cell!Next
        BY <2>1 DEF BuildOk, Cell!Next, Cell!Settle
    <2>2. ASSUME NEW c \in Callers, NEW k \in Ctors, BuildFails(c, k)
          PROVE  Cell!Next
        BY <2>2 DEF BuildFails, Cell!Next, Cell!Settle
    <2>3. ASSUME UNCHANGED <<helper, failures>> PROVE UNCHANGED CellValue
        BY <2>3
    <2>4. \/ \E c \in Callers, k \in Ctors : BuildOk(c, k) \/ BuildFails(c, k)
          \/ UNCHANGED <<helper, failures>>
        BY DEF Next, Step, Build, NewHelper, NewHelperWithoutDnsService,
               NewGlobalHelper, NewGlobalHelperWithoutDnsService, Call,
               OnceEnter, OnceSkip, OnceExit, Return, GetGlobalHelper, vars
    <2> QED
        BY <2>1, <2>2, <2>3, <2>4
  <1> QED
      BY <1>1, <1>2, OnceInvariant, PTL DEF Spec, ImplementsOnceCell, Cell!Spec
=============================================================================
