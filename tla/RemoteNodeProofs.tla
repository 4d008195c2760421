-------------------------- MODULE RemoteNodeProofs --------------------------
(***************************************************************************)
(* IInv (module RemoteNodeInv) is an inductive invariant of RemoteNode, and *)
(* implies its safety properties, for any sets of connections and writers. *)
(* One lemma per part of IInv; in each, one step per action.                *)
(***************************************************************************)
EXTENDS RemoteNodeInv, TLAPS

\* Abbreviations of the specification that every step may unfold.
USE DEF StarterAt, StopperAt, NoAccept, NoReader, NoRec, WriterAt, SetStatus,
    GoReader, GoReconnect, SetRemoteConn, CloseRemoteConnIfCurrent,
    EnsureRemoteContext, EnsuredCtx, graphVars, listenVars, connVars, sharedVars,
    goroutines, othersOfStarter, othersOfStopper, othersOfAccept, othersOfReader,
    othersOfRec, othersOfWriter

-----------------------------------------------------------------------------
(* Type correctness.                                                       *)

\* What TypeOK says of the locals an action copies into shared state.
LocalTypes ==
    /\ starter.conn \in Keys /\ starter.ctx \in Nat
    /\ accept.conn \in Keys /\ accept.ctx \in Nat
    /\ \A p \in Stoppers : stopper[p].ctx \in Nat
    /\ \A c \in Conns : reader[c].ctx \in Nat
    /\ \A k \in Keys : rec[k].conn \in Keys /\ rec[k].ctx \in Nat
    /\ \A w \in Writers : writer[w].conn \in Keys
    /\ EnsuredCtx \in Nat

\* The locals of every goroutine are well typed in a well typed state.
LEMMA LocalsTyped == ASSUME TypeOK PROVE LocalTypes
  BY DEF TypeOK, LocalTypes, StarterStates, StopperStates, AcceptStates, ReaderStates,
     RecStates, WriterStates

\* Initial states are well typed.
LEMMA TypeInit == Init => TypeOK
  <1> SUFFICES ASSUME Init PROVE TypeOK
    OBVIOUS
  <1> USE DEF Init, Keys
  <1>1. starter \in StarterStates BY DEF StarterStates
  <1>2. stopper \in [Stoppers -> StopperStates] BY DEF StopperStates
  <1>3. accept \in AcceptStates BY DEF AcceptStates
  <1>4. reader \in [Conns -> ReaderStates] BY DEF ReaderStates
  <1>5. rec \in [Keys -> RecStates] BY DEF RecStates
  <1>6. writer \in [Writers -> WriterStates] BY DEF WriterStates
  <1> QED BY <1>1, <1>2, <1>3, <1>4, <1>5, <1>6 DEF TypeOK, Statuses

\* Every step keeps the state well typed.
LEMMA TypeStep == ASSUME TypeOK, [Next]_vars PROVE TypeOK'
  <1>0. LocalTypes BY LocalsTyped
  <1> USE <1>0 DEF TypeOK, LocalTypes
  <1>1. ASSUME StartBegin PROVE TypeOK'
    <2>1. starter' \in StarterStates BY <1>1 DEF StartBegin, StarterStates, Keys
    <2> QED BY <1>1, <2>1 DEF StartBegin, Keys, Statuses
  <1>2. ASSUME StartClient PROVE TypeOK'
    <2>1. starter' \in StarterStates BY <1>2 DEF StartClient, StarterStates, Keys
    <2> QED BY <1>2, <2>1 DEF StartClient, Keys, Statuses
  <1>3. ASSUME NEW c \in Conns, StartDialOk(c) PROVE TypeOK'
    <2>1. tcp' \in [Conns -> {"open", "broken", "closed"}] BY <1>3 DEF StartDialOk, Keys
    <2>2. starter' \in StarterStates BY <1>3 DEF StartDialOk, StarterStates, Keys
    <2> QED BY <1>3, <2>1, <2>2 DEF StartDialOk, Keys, Statuses
  <1>4. ASSUME StartDialFails PROVE TypeOK'
    <2>1. starter' \in StarterStates BY <1>4 DEF StartDialFails, StarterStates, Keys
    <2>2. rec' \in [Keys -> RecStates] BY <1>4 DEF StartDialFails, RecStates, Keys
    <2> QED BY <1>4, <2>1, <2>2 DEF StartDialFails, Keys, Statuses
  <1>5. ASSUME StartInstall PROVE TypeOK'
    <2>1. tcp' \in [Conns -> {"open", "broken", "closed"}] BY <1>5 DEF StartInstall, Keys
    <2>2. starter' \in StarterStates BY <1>5 DEF StartInstall, StarterStates, Keys
    <2> QED BY <1>5, <2>1, <2>2 DEF StartInstall, Keys, Statuses
  <1>6. ASSUME StartStatus PROVE TypeOK'
    <2>1. starter' \in StarterStates BY <1>6 DEF StartStatus, StarterStates, Keys
    <2>2. reader' \in [Conns -> ReaderStates] BY <1>6 DEF StartStatus, ReaderStates
    <2> QED BY <1>6, <2>1, <2>2 DEF StartStatus, Keys, Statuses
  <1>7. ASSUME StartListen PROVE TypeOK'
    <2>1. starter' \in StarterStates BY <1>7 DEF StartListen, StarterStates, Keys
    <2> QED BY <1>7, <2>1 DEF StartListen, Keys, Statuses
  <1>8. ASSUME StartSetListener PROVE TypeOK'
    <2>1. starter' \in StarterStates BY <1>8 DEF StartSetListener, StarterStates, Keys
    <2> QED BY <1>8, <2>1 DEF StartSetListener, Keys, Statuses
  <1>9. ASSUME StartServe PROVE TypeOK'
    <2>1. starter' \in StarterStates BY <1>9 DEF StartServe, StarterStates, Keys
    <2>2. accept' \in AcceptStates BY <1>9 DEF StartServe, AcceptStates, Keys
    <2> QED BY <1>9, <2>1, <2>2 DEF StartServe, Keys, Statuses
  <1>10. ASSUME StartRest PROVE TypeOK'
    <2>1. starter' \in StarterStates BY <1>10 DEF StartRest, StarterStates, Keys
    <2> QED BY <1>10, <2>1 DEF StartRest, Keys, Statuses
  <1>11. ASSUME StartSetError PROVE TypeOK'
    <2>1. starter' \in StarterStates BY <1>11 DEF StartSetError, StarterStates, Keys
    <2> QED BY <1>11, <2>1 DEF StartSetError, Keys, Statuses
  <1>12. ASSUME StartUnmap PROVE TypeOK'
    <2>1. starter' \in StarterStates BY <1>12 DEF StartUnmap, StarterStates, Keys
    <2>2. stopper' \in [Stoppers -> StopperStates] BY <1>12 DEF StartUnmap, StopperStates, Stoppers
    <2> QED BY <1>12, <2>1, <2>2, ZenonT(40) DEF StartUnmap, Keys, Statuses
  <1>13. ASSUME StopSerialGraph PROVE TypeOK'
    <2>1. stopper' \in [Stoppers -> StopperStates] BY <1>13 DEF StopSerialGraph, StopperStates, Stoppers
    <2> QED BY <1>13, <2>1 DEF StopSerialGraph, Keys, Statuses
  <1>14. ASSUME NEW p \in Stoppers, StopEnter(p) PROVE TypeOK'
    <2>1. stopper' \in [Stoppers -> StopperStates] BY <1>14 DEF StopEnter, StopperStates, Stoppers
    <2> QED BY <1>14, <2>1 DEF StopEnter, Keys, Statuses
  <1>15. ASSUME NEW p \in Stoppers, StopAgain(p) PROVE TypeOK'
    <2>1. stopper' \in [Stoppers -> StopperStates] BY <1>15 DEF StopAgain, StopperStates, Stoppers
    <2> QED BY <1>15, <2>1 DEF StopAgain, Keys, Statuses
  <1>16. ASSUME NEW p \in Stoppers, StopCancel(p) PROVE TypeOK'
    <2>1. stopper' \in [Stoppers -> StopperStates] BY <1>16 DEF StopCancel, StopperStates, Stoppers
    <2>2. cancelled' \subseteq Nat
      <3>1. cancelled \subseteq Nat /\ stopper[p].ctx \in Nat OBVIOUS
      <3>2. cancelled' = cancelled \cup ({stopper[p].ctx} \ {0}) BY <1>16 DEF StopCancel
      <3> QED BY ONLY <3>1, <3>2
    <2> QED BY <1>16, <2>1, <2>2 DEF StopCancel, Keys, Statuses
  <1>17. ASSUME NEW p \in Stoppers, StopListener(p) PROVE TypeOK'
    <2>1. stopper' \in [Stoppers -> StopperStates] BY <1>17 DEF StopListener, StopperStates, Stoppers
    <2> QED BY <1>17, <2>1 DEF StopListener, Keys, Statuses
  <1>18. ASSUME NEW p \in Stoppers, StopConn(p) PROVE TypeOK'
    <2>1. tcp' \in [Conns -> {"open", "broken", "closed"}] BY <1>18 DEF StopConn, Keys
    <2>2. stopper' \in [Stoppers -> StopperStates] BY <1>18 DEF StopConn, StopperStates, Stoppers
    <2> QED BY <1>18, <2>1, <2>2 DEF StopConn, Keys, Statuses
  <1>19. ASSUME NEW c \in Conns, AcceptOk(c) PROVE TypeOK'
    <2>1. tcp' \in [Conns -> {"open", "broken", "closed"}] BY <1>19 DEF AcceptOk, Keys
    <2>2. accept' \in AcceptStates BY <1>19 DEF AcceptOk, AcceptStates, Keys
    <2> QED BY <1>19, <2>1, <2>2 DEF AcceptOk, Keys, Statuses
  <1>20. ASSUME AcceptFails PROVE TypeOK'
    <2>1. accept' \in AcceptStates BY <1>20 DEF AcceptFails, AcceptStates, Keys
    <2> QED BY <1>20, <2>1 DEF AcceptFails, Keys, Statuses
  <1>21. ASSUME AcceptInstall PROVE TypeOK'
    <2>1. tcp' \in [Conns -> {"open", "broken", "closed"}] BY <1>21 DEF AcceptInstall, Keys
    <2>2. accept' \in AcceptStates BY <1>21 DEF AcceptInstall, AcceptStates, Keys
    <2> QED BY <1>21, <2>1, <2>2 DEF AcceptInstall, Keys, Statuses
  <1>22. ASSUME AcceptStatus PROVE TypeOK'
    <2>1. accept' \in AcceptStates BY <1>22 DEF AcceptStatus, AcceptStates, Keys
    <2>2. reader' \in [Conns -> ReaderStates] BY <1>22 DEF AcceptStatus, ReaderStates
    <2> QED BY <1>22, <2>1, <2>2 DEF AcceptStatus, Keys, Statuses
  <1>23. ASSUME NEW c \in Conns, ReaderCheck(c) PROVE TypeOK'
    <2>1. reader' \in [Conns -> ReaderStates] BY <1>23 DEF ReaderCheck, ReaderStates
    <2> QED BY <1>23, <2>1 DEF ReaderCheck, Keys, Statuses
  <1>24. ASSUME NEW c \in Conns, ReaderCancelled(c) PROVE TypeOK'
    <2>1. tcp' \in [Conns -> {"open", "broken", "closed"}] BY <1>24 DEF ReaderCancelled, Keys
    <2>2. reader' \in [Conns -> ReaderStates] BY <1>24 DEF ReaderCancelled, ReaderStates
    <2> QED BY <1>24, <2>1, <2>2 DEF ReaderCancelled, Keys, Statuses
  <1>25. ASSUME NEW c \in Conns, ReaderData(c) PROVE TypeOK'
    <2>1. reader' \in [Conns -> ReaderStates] BY <1>25 DEF ReaderData, ReaderStates
    <2> QED BY <1>25, <2>1 DEF ReaderData, Keys, Statuses
  <1>26. ASSUME NEW c \in Conns, ReaderFails(c) PROVE TypeOK'
    <2>1. reader' \in [Conns -> ReaderStates] BY <1>26 DEF ReaderFails, ReaderStates
    <2> QED BY <1>26, <2>1 DEF ReaderFails, Keys, Statuses
  <1>27. ASSUME NEW c \in Conns, ReaderStopped(c) PROVE TypeOK'
    <2>1. tcp' \in [Conns -> {"open", "broken", "closed"}] BY <1>27 DEF ReaderStopped, Keys
    <2>2. reader' \in [Conns -> ReaderStates] BY <1>27 DEF ReaderStopped, ReaderStates
    <2> QED BY <1>27, <2>1, <2>2 DEF ReaderStopped, Keys, Statuses
  <1>28. ASSUME NEW c \in Conns, ReaderFailed(c) PROVE TypeOK'
    <2>1. reader' \in [Conns -> ReaderStates] BY <1>28 DEF ReaderFailed, ReaderStates
    <2> QED BY <1>28, <2>1 DEF ReaderFailed, Keys, Statuses
  <1>29. ASSUME NEW c \in Conns, ReaderDetach(c) PROVE TypeOK'
    <2>1. tcp' \in [Conns -> {"open", "broken", "closed"}] BY <1>29 DEF ReaderDetach, Keys
    <2>2. reader' \in [Conns -> ReaderStates] BY <1>29 DEF ReaderDetach, ReaderStates
    <2> QED BY <1>29, <2>1, <2>2 DEF ReaderDetach, Keys, Statuses
  <1>30. ASSUME NEW c \in Conns, ReaderReplaced(c) PROVE TypeOK'
    <2>1. tcp' \in [Conns -> {"open", "broken", "closed"}] BY <1>30 DEF ReaderReplaced, Keys
    <2>2. reader' \in [Conns -> ReaderStates] BY <1>30 DEF ReaderReplaced, ReaderStates
    <2> QED BY <1>30, <2>1, <2>2 DEF ReaderReplaced, Keys, Statuses
  <1>31. ASSUME NEW c \in Conns, ReaderReconnect(c) PROVE TypeOK'
    <2>1. reader' \in [Conns -> ReaderStates] BY <1>31 DEF ReaderReconnect, ReaderStates
    <2>2. rec' \in [Keys -> RecStates] BY <1>31 DEF ReaderReconnect, RecStates, Keys
    <2> QED BY <1>31, <2>1, <2>2 DEF ReaderReconnect, Keys, Statuses
  <1>32. ASSUME NEW c \in Conns, ReaderDropped(c) PROVE TypeOK'
    <2>1. reader' \in [Conns -> ReaderStates] BY <1>32 DEF ReaderDropped, ReaderStates
    <2> QED BY <1>32, <2>1 DEF ReaderDropped, Keys, Statuses
  <1>33. ASSUME NEW c \in Conns, Break(c) PROVE TypeOK'
    <2>1. tcp' \in [Conns -> {"open", "broken", "closed"}] BY <1>33 DEF Break, Keys
    <2> QED BY <1>33, <2>1 DEF Break, Keys, Statuses
  <1>34. ASSUME NEW k \in Keys, RecBegin(k) PROVE TypeOK'
    <2>1. rec' \in [Keys -> RecStates] BY <1>34 DEF RecBegin, RecStates, Keys
    <2> QED BY <1>34, <2>1 DEF RecBegin, Keys, Statuses
  <1>35. ASSUME NEW k \in Keys, RecRefused(k) PROVE TypeOK'
    <2>1. rec' \in [Keys -> RecStates] BY <1>35 DEF RecRefused, RecStates, Keys
    <2> QED BY <1>35, <2>1 DEF RecRefused, Keys, Statuses
  <1>36. ASSUME NEW k \in Keys, RecCancelled(k) PROVE TypeOK'
    <2>1. rec' \in [Keys -> RecStates] BY <1>36 DEF RecCancelled, RecStates, Keys
    <2> QED BY <1>36, <2>1 DEF RecCancelled, Keys, Statuses
  <1>37. ASSUME NEW k \in Keys, RecTimer(k) PROVE TypeOK'
    <2>1. rec' \in [Keys -> RecStates] BY <1>37 DEF RecTimer, RecStates, Keys
    <2> QED BY <1>37, <2>1 DEF RecTimer, Keys, Statuses
  <1>38. ASSUME NEW k \in Keys, NEW c \in Conns, RecDialOk(k, c) PROVE TypeOK'
    <2>1. tcp' \in [Conns -> {"open", "broken", "closed"}] BY <1>38 DEF RecDialOk, Keys
    <2>2. rec' \in [Keys -> RecStates] BY <1>38 DEF RecDialOk, RecStates, Keys
    <2> QED BY <1>38, <2>1, <2>2 DEF RecDialOk, Keys, Statuses
  <1>39. ASSUME NEW k \in Keys, RecDialFails(k) PROVE TypeOK'
    <2>1. rec' \in [Keys -> RecStates] BY <1>39 DEF RecDialFails, RecStates, Keys
    <2> QED BY <1>39, <2>1 DEF RecDialFails, Keys, Statuses
  <1>40. ASSUME NEW k \in Keys, RecEnd(k) PROVE TypeOK'
    <2>1. rec' \in [Keys -> RecStates] BY <1>40 DEF RecEnd, RecStates, Keys
    <2> QED BY <1>40, <2>1, ZenonT(40) DEF RecEnd, Keys, Statuses
  <1>41. ASSUME NEW k \in Keys, RecInstall(k) PROVE TypeOK'
    <2>1. tcp' \in [Conns -> {"open", "broken", "closed"}] BY <1>41 DEF RecInstall, Keys
    <2>2. rec' \in [Keys -> RecStates] BY <1>41 DEF RecInstall, RecStates, Keys
    <2> QED BY <1>41, <2>1, <2>2 DEF RecInstall, Keys, Statuses
  <1>42. ASSUME NEW k \in Keys, RecStatus(k) PROVE TypeOK'
    <2>1. reader' \in [Conns -> ReaderStates] BY <1>42 DEF RecStatus, ReaderStates
    <2>2. rec' \in [Keys -> RecStates] BY <1>42 DEF RecStatus, RecStates, Keys
    <2> QED BY <1>42, <2>1, <2>2 DEF RecStatus, Keys, Statuses
  <1>43. ASSUME NEW w \in Writers, WriteBegin(w) PROVE TypeOK'
    <2>1. writer' \in [Writers -> WriterStates] BY <1>43 DEF WriteBegin, WriterStates, Keys
    <2> QED BY <1>43, <2>1 DEF WriteBegin, Keys, Statuses
  <1>44. ASSUME NEW w \in Writers, WriteConn(w) PROVE TypeOK'
    <2>1. writer' \in [Writers -> WriterStates] BY <1>44 DEF WriteConn, WriterStates, Keys
    <2> QED BY <1>44, <2>1 DEF WriteConn, Keys, Statuses
  <1>45. ASSUME NEW w \in Writers, WriteNoConn(w) PROVE TypeOK'
    <2>1. writer' \in [Writers -> WriterStates] BY <1>45 DEF WriteNoConn, WriterStates, Keys
    <2> QED BY <1>45, <2>1 DEF WriteNoConn, Keys, Statuses
  <1>46. ASSUME NEW w \in Writers, WriteNil(w) PROVE TypeOK'
    <2>1. writer' \in [Writers -> WriterStates] BY <1>46 DEF WriteNil, WriterStates, Keys
    <2> QED BY <1>46, <2>1 DEF WriteNil, Keys, Statuses
  <1>47. ASSUME NEW w \in Writers, WriteOk(w) PROVE TypeOK'
    <2>1. writer' \in [Writers -> WriterStates] BY <1>47 DEF WriteOk, WriterStates, Keys
    <2> QED BY <1>47, <2>1 DEF WriteOk, Keys, Statuses
  <1>48. ASSUME NEW w \in Writers, WriteFails(w) PROVE TypeOK'
    <2>1. writer' \in [Writers -> WriterStates] BY <1>48 DEF WriteFails, WriterStates, Keys
    <2> QED BY <1>48, <2>1 DEF WriteFails, Keys, Statuses
  <1>49. ASSUME NEW w \in Writers, WriteDetach(w) PROVE TypeOK'
    <2>1. tcp' \in [Conns -> {"open", "broken", "closed"}] BY <1>49 DEF WriteDetach, Keys
    <2>2. writer' \in [Writers -> WriterStates] BY <1>49 DEF WriteDetach, WriterStates, Keys
    <2> QED BY <1>49, <2>1, <2>2 DEF WriteDetach, Keys, Statuses
  <1>50. ASSUME NEW w \in Writers, WriteReplaced(w) PROVE TypeOK'
    <2>1. tcp' \in [Conns -> {"open", "broken", "closed"}] BY <1>50 DEF WriteReplaced, Keys
    <2>2. writer' \in [Writers -> WriterStates] BY <1>50 DEF WriteReplaced, WriterStates, Keys
    <2> QED BY <1>50, <2>1, <2>2 DEF WriteReplaced, Keys, Statuses
  <1>51. ASSUME NEW w \in Writers, WriteDetached(w) PROVE TypeOK'
    <2>1. writer' \in [Writers -> WriterStates] BY <1>51 DEF WriteDetached, WriterStates, Keys
    <2> QED BY <1>51, <2>1 DEF WriteDetached, Keys, Statuses
  <1>52. ASSUME NEW w \in Writers, WriteDropped(w) PROVE TypeOK'
    <2>1. writer' \in [Writers -> WriterStates] BY <1>52 DEF WriteDropped, WriterStates, Keys
    <2> QED BY <1>52, <2>1 DEF WriteDropped, Keys, Statuses
  <1>53. ASSUME NEW w \in Writers, WriteReconnect(w) PROVE TypeOK'
    <2>1. rec' \in [Keys -> RecStates] BY <1>53 DEF WriteReconnect, RecStates, Keys
    <2>2. writer' \in [Writers -> WriterStates] BY <1>53 DEF WriteReconnect, WriterStates, Keys
    <2> QED BY <1>53, <2>1, <2>2 DEF WriteReconnect, Keys, Statuses
  <1>54. ASSUME UNCHANGED vars PROVE TypeOK' BY <1>54 DEF vars
  <1> QED BY ONLY [Next]_vars, <1>1, <1>2, <1>3, <1>4, <1>5, <1>6, <1>7, <1>8,
      <1>9, <1>10, <1>11, <1>12, <1>13, <1>14, <1>15, <1>16, <1>17, <1>18, <1>19,
      <1>20, <1>21, <1>22, <1>23, <1>24, <1>25, <1>26, <1>27, <1>28, <1>29, <1>30,
      <1>31, <1>32, <1>33, <1>34, <1>35, <1>36, <1>37, <1>38, <1>39, <1>40, <1>41,
      <1>42, <1>43, <1>44, <1>45, <1>46, <1>47, <1>48, <1>49, <1>50, <1>51, <1>52,
      <1>53, <1>54 DEF Next, StarterNext, StopNext, AcceptNext, ReaderNext,
      RecNext, WriterNext, vars

-----------------------------------------------------------------------------
(* The other parts of the invariant.                                       *)

\* StartDialFails keeps one owner for every connection.
LEMMA StartDialFailsHands ==
  ASSUME IInv, StartDialFails PROVE Hands'
  <1> USE ConnsAssumption DEF IInv, TypeOK, Keys, StarterStates, AcceptStates,
      ReaderStates, RecStates, WriterStates, StartDialFails
  <1>1. LocalsMatch' BY DEF Hands, LocalsMatch
  <1>2. OneHolder' BY DEF Hands, OneHolder, Holds, LocalsMatch
  <1>3. InHandPrivate' BY DEF Hands, InHandPrivate, InHand, Unclosed, OneHolder,
      Holds, LocalsMatch, CurrentOpen
  <1>4. CurrentOpen' BY DEF Hands, CurrentOpen, Unclosed, InHand, InHandPrivate,
      LocalsMatch
  <1>5. LostClosed' BY DEF Hands, LostClosed, Detacher, Unclosed, LocalsMatch,
      OneRecoverer
  <1>6. OneRecoverer' BY SMTT(30) DEF Hands, OneRecoverer, Detacher, LostClosed,
      CurrentOpen, Unclosed, LocalsMatch
  <1> QED BY <1>1, <1>2, <1>3, <1>4, <1>5, <1>6 DEF Hands

\* StartServe keeps one owner for every connection.
LEMMA StartServeHands ==
  ASSUME IInv, StartServe PROVE Hands'
  <1> USE ConnsAssumption DEF IInv, TypeOK, Keys, StarterStates, AcceptStates,
      ReaderStates, RecStates, WriterStates, StartServe
  <1>1. LocalsMatch' BY DEF Hands, LocalsMatch
  <1>2. OneHolder' BY DEF Hands, OneHolder, Holds, LocalsMatch
  <1>3. InHandPrivate' BY DEF Hands, InHandPrivate, InHand, Unclosed, OneHolder,
      Holds, LocalsMatch, CurrentOpen
  <1>4. CurrentOpen' BY DEF Hands, CurrentOpen, Unclosed, InHand, InHandPrivate,
      LocalsMatch
  <1>5. LostClosed' BY DEF Hands, LostClosed, Detacher, Unclosed, LocalsMatch,
      OneRecoverer
  <1>6. OneRecoverer' BY DEF Hands, OneRecoverer, Detacher, LostClosed,
      CurrentOpen, Unclosed, LocalsMatch
  <1> QED BY <1>1, <1>2, <1>3, <1>4, <1>5, <1>6 DEF Hands

\* ReaderReplaced keeps one owner for every connection.
LEMMA ReaderReplacedHands ==
  ASSUME NEW c \in Conns, IInv, ReaderReplaced(c) PROVE Hands'
  <1> USE ConnsAssumption DEF IInv, TypeOK, Keys, StarterStates, AcceptStates,
      ReaderStates, RecStates, WriterStates, ReaderReplaced
  <1>1. ~InHand(c) BY DEF ReaderReplaced, Hands, OneHolder, Holds, InHand
  <1>2. \A d \in Conns : d # c => tcp'[d] = tcp[d] BY DEF ReaderReplaced
  <1>3. \A d \in Conns : InHand(d)' <=> InHand(d) BY DEF ReaderReplaced, InHand
  <1>4. InHandPrivate'
    BY <1>1, <1>2, <1>3 DEF ReaderReplaced, Hands, InHandPrivate, Unclosed
  <1>5. LocalsMatch' BY DEF ReaderReplaced, Hands, LocalsMatch
  <1>6. OneHolder' BY DEF ReaderReplaced, Hands, OneHolder, Holds
  <1>7. CurrentOpen' BY DEF ReaderReplaced, Hands, CurrentOpen, Unclosed
  <1>8. LostClosed' BY DEF ReaderReplaced, Hands, LostClosed, Detacher
  <1>9. OneRecoverer' BY DEF ReaderReplaced, Hands, OneRecoverer, Detacher
  <1> QED BY <1>4, <1>5, <1>6, <1>7, <1>8, <1>9 DEF Hands

\* ReaderReconnect keeps one owner for every connection.
LEMMA ReaderReconnectHands ==
  ASSUME NEW c \in Conns, IInv, ReaderReconnect(c) PROVE Hands'
  <1> USE ConnsAssumption DEF IInv, TypeOK, Keys, StarterStates, AcceptStates,
      ReaderStates, RecStates, WriterStates, ReaderReconnect
  <1>1. LocalsMatch' BY DEF Hands, LocalsMatch
  <1>2. OneHolder' BY DEF Hands, OneHolder, Holds, LocalsMatch
  <1>3. InHandPrivate' BY DEF Hands, InHandPrivate, InHand, Unclosed, OneHolder,
      Holds, LocalsMatch, CurrentOpen
  <1>4. CurrentOpen' BY DEF Hands, CurrentOpen, Unclosed, InHand, InHandPrivate,
      LocalsMatch
  <1>5. LostClosed' BY DEF Hands, LostClosed, Detacher, Unclosed, LocalsMatch,
      OneRecoverer
  <1>6. OneRecoverer' BY DEF Hands, OneRecoverer, Detacher, LostClosed,
      CurrentOpen, Unclosed, LocalsMatch
  <1> QED BY <1>1, <1>2, <1>3, <1>4, <1>5, <1>6 DEF Hands

\* RecDialFails keeps one owner for every connection.
LEMMA RecDialFailsHands ==
  ASSUME NEW k \in Keys, IInv, RecDialFails(k) PROVE Hands'
  <1> USE ConnsAssumption DEF IInv, TypeOK, Keys, StarterStates, AcceptStates,
      ReaderStates, RecStates, WriterStates, RecDialFails
  <1>1. LocalsMatch' BY DEF Hands, LocalsMatch
  <1>2. OneHolder' BY DEF Hands, OneHolder, Holds, LocalsMatch
  <1>3. InHandPrivate' BY DEF Hands, InHandPrivate, InHand, Unclosed, OneHolder,
      Holds, LocalsMatch, CurrentOpen
  <1>4. CurrentOpen' BY DEF Hands, CurrentOpen, Unclosed, InHand, InHandPrivate,
      LocalsMatch
  <1>5. LostClosed' BY DEF Hands, LostClosed, Detacher, Unclosed, LocalsMatch,
      OneRecoverer
  <1>6. OneRecoverer' BY DEF Hands, OneRecoverer, Detacher, LostClosed,
      CurrentOpen, Unclosed, LocalsMatch
  <1> QED BY <1>1, <1>2, <1>3, <1>4, <1>5, <1>6 DEF Hands

\* WriteDetached keeps one owner for every connection.
LEMMA WriteDetachedHands ==
  ASSUME NEW w \in Writers, IInv, WriteDetached(w) PROVE Hands'
  <1> USE ConnsAssumption DEF IInv, TypeOK, Keys, StarterStates, AcceptStates,
      ReaderStates, RecStates, WriterStates, WriteDetached
  <1>1. LocalsMatch' BY DEF Hands, LocalsMatch
  <1>2. OneHolder' BY DEF Hands, OneHolder, Holds, LocalsMatch
  <1>3. InHandPrivate' BY DEF Hands, InHandPrivate, InHand, Unclosed, OneHolder,
      Holds, LocalsMatch, CurrentOpen
  <1>4. CurrentOpen' BY DEF Hands, CurrentOpen, Unclosed, InHand, InHandPrivate,
      LocalsMatch
  <1>5. LostClosed' BY DEF Hands, LostClosed, Detacher, Unclosed, LocalsMatch,
      OneRecoverer
  <1>6. OneRecoverer' BY DEF Hands, OneRecoverer, Detacher, LostClosed,
      CurrentOpen, Unclosed, LocalsMatch
  <1> QED BY <1>1, <1>2, <1>3, <1>4, <1>5, <1>6 DEF Hands

\* Every connection keeps exactly one owner.
LEMMA HandsStep == ASSUME IInv, [Next]_vars PROVE Hands'
  <1> USE ConnsAssumption DEF IInv, TypeOK, Keys, StarterStates, AcceptStates,
      ReaderStates, RecStates, WriterStates, Hands, LocalsMatch, OneHolder, Holds,
      InHandPrivate, InHand, Unclosed, CurrentOpen, LostClosed, Detacher,
      OneRecoverer
  <1>1. ASSUME StartBegin PROVE Hands' BY <1>1 DEF StartBegin
  <1>2. ASSUME StartClient PROVE Hands' BY <1>2 DEF StartClient
  <1>3. ASSUME NEW c \in Conns, StartDialOk(c) PROVE Hands'
    BY <1>3 DEF StartDialOk, Fresh
  <1>4. ASSUME StartDialFails PROVE Hands'
    BY <1>4, StartDialFailsHands
  <1>5. ASSUME StartInstall PROVE Hands' BY <1>5 DEF StartInstall
  <1>6. ASSUME StartStatus PROVE Hands' BY <1>6 DEF StartStatus
  <1>7. ASSUME StartListen PROVE Hands' BY <1>7 DEF StartListen
  <1>8. ASSUME StartSetListener PROVE Hands' BY <1>8 DEF StartSetListener
  <1>9. ASSUME StartServe PROVE Hands'
    BY <1>9, StartServeHands
  <1>10. ASSUME StartRest PROVE Hands' BY <1>10 DEF StartRest
  <1>11. ASSUME StartSetError PROVE Hands' BY <1>11 DEF StartSetError
  <1>12. ASSUME StartUnmap PROVE Hands' BY <1>12 DEF StartUnmap
  <1>13. ASSUME StopSerialGraph PROVE Hands' BY <1>13 DEF StopSerialGraph
  <1>14. ASSUME NEW p \in Stoppers, StopEnter(p) PROVE Hands' BY <1>14 DEF StopEnter
  <1>15. ASSUME NEW p \in Stoppers, StopAgain(p) PROVE Hands' BY <1>15 DEF StopAgain
  <1>16. ASSUME NEW p \in Stoppers, StopCancel(p) PROVE Hands' BY <1>16 DEF StopCancel
  <1>17. ASSUME NEW p \in Stoppers, StopListener(p) PROVE Hands'
    BY <1>17 DEF StopListener
  <1>18. ASSUME NEW p \in Stoppers, StopConn(p) PROVE Hands' BY <1>18 DEF StopConn
  <1>19. ASSUME NEW c \in Conns, AcceptOk(c) PROVE Hands' BY <1>19 DEF AcceptOk, Fresh
  <1>20. ASSUME AcceptFails PROVE Hands' BY <1>20 DEF AcceptFails
  <1>21. ASSUME AcceptInstall PROVE Hands' BY <1>21 DEF AcceptInstall
  <1>22. ASSUME AcceptStatus PROVE Hands' BY <1>22 DEF AcceptStatus
  <1>23. ASSUME NEW c \in Conns, ReaderCheck(c) PROVE Hands' BY <1>23 DEF ReaderCheck
  <1>24. ASSUME NEW c \in Conns, ReaderCancelled(c) PROVE Hands'
    BY <1>24 DEF ReaderCancelled
  <1>25. ASSUME NEW c \in Conns, ReaderData(c) PROVE Hands' BY <1>25 DEF ReaderData
  <1>26. ASSUME NEW c \in Conns, ReaderFails(c) PROVE Hands' BY <1>26 DEF ReaderFails
  <1>27. ASSUME NEW c \in Conns, ReaderStopped(c) PROVE Hands'
    BY <1>27 DEF ReaderStopped
  <1>28. ASSUME NEW c \in Conns, ReaderFailed(c) PROVE Hands' BY <1>28 DEF ReaderFailed
  <1>29. ASSUME NEW c \in Conns, ReaderDetach(c) PROVE Hands' BY <1>29 DEF ReaderDetach
  <1>30. ASSUME NEW c \in Conns, ReaderReplaced(c) PROVE Hands'
    BY <1>30, ReaderReplacedHands
  <1>31. ASSUME NEW c \in Conns, ReaderReconnect(c) PROVE Hands'
    BY <1>31, ReaderReconnectHands
  <1>32. ASSUME NEW c \in Conns, ReaderDropped(c) PROVE Hands'
    BY <1>32 DEF ReaderDropped
  <1>33. ASSUME NEW c \in Conns, Break(c) PROVE Hands' BY <1>33 DEF Break
  <1>34. ASSUME NEW k \in Keys, RecBegin(k) PROVE Hands' BY <1>34 DEF RecBegin
  <1>35. ASSUME NEW k \in Keys, RecRefused(k) PROVE Hands' BY <1>35 DEF RecRefused
  <1>36. ASSUME NEW k \in Keys, RecCancelled(k) PROVE Hands' BY <1>36 DEF RecCancelled
  <1>37. ASSUME NEW k \in Keys, RecTimer(k) PROVE Hands' BY <1>37 DEF RecTimer
  <1>38. ASSUME NEW k \in Keys, NEW c \in Conns, RecDialOk(k, c) PROVE Hands'
    BY <1>38 DEF RecDialOk, Fresh
  <1>39. ASSUME NEW k \in Keys, RecDialFails(k) PROVE Hands'
    BY <1>39, RecDialFailsHands
  <1>40. ASSUME NEW k \in Keys, RecEnd(k) PROVE Hands' BY <1>40 DEF RecEnd
  <1>41. ASSUME NEW k \in Keys, RecInstall(k) PROVE Hands' BY <1>41 DEF RecInstall
  <1>42. ASSUME NEW k \in Keys, RecStatus(k) PROVE Hands' BY <1>42 DEF RecStatus
  <1>43. ASSUME NEW w \in Writers, WriteBegin(w) PROVE Hands' BY <1>43 DEF WriteBegin
  <1>44. ASSUME NEW w \in Writers, WriteConn(w) PROVE Hands' BY <1>44 DEF WriteConn
  <1>45. ASSUME NEW w \in Writers, WriteNoConn(w) PROVE Hands' BY <1>45 DEF WriteNoConn
  <1>46. ASSUME NEW w \in Writers, WriteNil(w) PROVE Hands' BY <1>46 DEF WriteNil
  <1>47. ASSUME NEW w \in Writers, WriteOk(w) PROVE Hands' BY <1>47 DEF WriteOk
  <1>48. ASSUME NEW w \in Writers, WriteFails(w) PROVE Hands' BY <1>48 DEF WriteFails
  <1>49. ASSUME NEW w \in Writers, WriteDetach(w) PROVE Hands' BY <1>49 DEF WriteDetach
  <1>50. ASSUME NEW w \in Writers, WriteReplaced(w) PROVE Hands'
    BY <1>50 DEF WriteReplaced
  <1>51. ASSUME NEW w \in Writers, WriteDetached(w) PROVE Hands'
    BY <1>51, WriteDetachedHands
  <1>52. ASSUME NEW w \in Writers, WriteDropped(w) PROVE Hands'
    BY <1>52 DEF WriteDropped
  <1>53. ASSUME NEW w \in Writers, WriteReconnect(w) PROVE Hands'
    BY <1>53 DEF WriteReconnect
  <1>54. ASSUME UNCHANGED vars PROVE Hands' BY <1>54 DEF vars
  <1> QED BY ONLY [Next]_vars, <1>1, <1>2, <1>3, <1>4, <1>5, <1>6, <1>7, <1>8,
      <1>9, <1>10, <1>11, <1>12, <1>13, <1>14, <1>15, <1>16, <1>17, <1>18, <1>19,
      <1>20, <1>21, <1>22, <1>23, <1>24, <1>25, <1>26, <1>27, <1>28, <1>29, <1>30,
      <1>31, <1>32, <1>33, <1>34, <1>35, <1>36, <1>37, <1>38, <1>39, <1>40, <1>41,
      <1>42, <1>43, <1>44, <1>45, <1>46, <1>47, <1>48, <1>49, <1>50, <1>51, <1>52,
      <1>53, <1>54 DEF Next, StarterNext, StopNext, AcceptNext, ReaderNext,
      RecNext, WriterNext, vars

\* StartDialOk keeps every connection owned and the current one watched.
LEMMA StartDialOkConn ==
  ASSUME NEW c \in Conns, IInv, StartDialOk(c) PROVE NoOrphanConn' /\ CurrentConnIsRead'
  <1> USE ConnsAssumption DEF IInv, TypeOK, Keys, StarterStates, AcceptStates,
      ReaderStates, RecStates, WriterStates, StartDialOk, Fresh
  <1>1. NoOrphanConn' BY DEF Hands, InHand, Unclosed, NoOrphanConn, OneRecoverer,
      LocalsMatch, Detacher
  <1>2. CurrentConnIsRead' BY DEF Hands, LocalsMatch, OneHolder, Holds, ReaderDue,
      CurrentConnIsRead, OneRecoverer, Detacher
  <1> QED BY <1>1, <1>2

\* StartDialFails keeps every connection owned and the current one watched.
LEMMA StartDialFailsConn ==
  ASSUME IInv, StartDialFails PROVE NoOrphanConn' /\ CurrentConnIsRead'
  <1> USE ConnsAssumption DEF IInv, TypeOK, Keys, StarterStates, AcceptStates,
      ReaderStates, RecStates, WriterStates, StartDialFails
  <1>1. NoOrphanConn' BY DEF Hands, InHand, Unclosed, NoOrphanConn, OneRecoverer,
      LocalsMatch, Detacher
  <1>2. CurrentConnIsRead' BY DEF Hands, LocalsMatch, OneHolder, Holds, ReaderDue,
      CurrentConnIsRead, OneRecoverer, Detacher
  <1> QED BY <1>1, <1>2

\* AcceptOk keeps every connection owned and the current one watched.
LEMMA AcceptOkConn ==
  ASSUME NEW c \in Conns, IInv, AcceptOk(c) PROVE NoOrphanConn' /\ CurrentConnIsRead'
  <1> USE ConnsAssumption DEF IInv, TypeOK, Keys, StarterStates, AcceptStates,
      ReaderStates, RecStates, WriterStates, AcceptOk, Fresh
  <1>1. \A d \in Conns : InHand(d)' <=> d = c \/ InHand(d)
    BY DEF AcceptOk, Fresh, InHand, Hands, LocalsMatch
  <1>2. \A d \in Conns : d # c => tcp'[d] = tcp[d] BY DEF AcceptOk
  <1>3. NoOrphanConn' BY <1>1, <1>2 DEF AcceptOk, NoOrphanConn, Unclosed
  <1>4. CurrentConnIsRead'
    BY DEF AcceptOk, Fresh, Hands, LocalsMatch, ReaderDue, CurrentConnIsRead
  <1> QED BY <1>3, <1>4

\* Break keeps every connection owned and the current one watched.
LEMMA BreakConn ==
  ASSUME NEW c \in Conns, IInv, Break(c) PROVE NoOrphanConn' /\ CurrentConnIsRead'
  <1> USE ConnsAssumption DEF IInv, TypeOK, Keys, StarterStates, AcceptStates,
      ReaderStates, RecStates, WriterStates, Break
  <1>1. NoOrphanConn' BY DEF Hands, InHand, Unclosed, NoOrphanConn, OneRecoverer,
      LocalsMatch, Detacher
  <1>2. CurrentConnIsRead' BY DEF Hands, LocalsMatch, OneHolder, Holds, ReaderDue,
      CurrentConnIsRead, OneRecoverer, Detacher
  <1> QED BY <1>1, <1>2

\* RecStatus keeps every connection owned and the current one watched.
LEMMA RecStatusConn ==
  ASSUME NEW k \in Keys, IInv, RecStatus(k) PROVE NoOrphanConn' /\ CurrentConnIsRead'
  <1> USE ConnsAssumption DEF IInv, TypeOK, Keys, StarterStates, AcceptStates,
      ReaderStates, RecStates, WriterStates, RecStatus
  <1>1. NoOrphanConn' BY DEF Hands, InHand, Unclosed, NoOrphanConn, OneRecoverer,
      LocalsMatch, Detacher
  <1>2. CurrentConnIsRead' BY DEF Hands, LocalsMatch, OneHolder, Holds, ReaderDue,
      CurrentConnIsRead, OneRecoverer, Detacher
  <1> QED BY <1>1, <1>2

\* WriteDetach keeps every connection owned and the current one watched.
LEMMA WriteDetachConn ==
  ASSUME NEW w \in Writers, IInv, WriteDetach(w) PROVE NoOrphanConn' /\ CurrentConnIsRead'
  <1> USE ConnsAssumption DEF IInv, TypeOK, Keys, StarterStates, AcceptStates,
      ReaderStates, RecStates, WriterStates, WriteDetach
  <1>1. NoOrphanConn' BY DEF Hands, InHand, Unclosed, NoOrphanConn, OneRecoverer,
      LocalsMatch, Detacher
  <1>2. CurrentConnIsRead' BY DEF Hands, LocalsMatch, OneHolder, Holds, ReaderDue,
      CurrentConnIsRead, OneRecoverer, Detacher
  <1> QED BY <1>1, <1>2

\* WriteReplaced keeps every connection owned and the current one watched.
LEMMA WriteReplacedConn ==
  ASSUME NEW w \in Writers, IInv, WriteReplaced(w) PROVE NoOrphanConn' /\ CurrentConnIsRead'
  <1> USE ConnsAssumption DEF IInv, TypeOK, Keys, StarterStates, AcceptStates,
      ReaderStates, RecStates, WriterStates, WriteReplaced
  <1>1. NoOrphanConn' BY DEF Hands, InHand, Unclosed, NoOrphanConn, OneRecoverer,
      LocalsMatch, Detacher
  <1>2. CurrentConnIsRead' BY DEF Hands, LocalsMatch, OneHolder, Holds, ReaderDue,
      CurrentConnIsRead, OneRecoverer, Detacher
  <1> QED BY <1>1, <1>2

\* No connection is orphaned, and the current one stays watched.
LEMMA ConnStep == ASSUME IInv, [Next]_vars PROVE NoOrphanConn' /\ CurrentConnIsRead'
  <1> USE ConnsAssumption DEF IInv, TypeOK, Keys, StarterStates, AcceptStates,
      ReaderStates, RecStates, WriterStates, Hands, LocalsMatch, OneHolder, Holds,
      InHand, Unclosed, ReaderDue, NoOrphanConn, CurrentConnIsRead, Detacher,
      OneRecoverer
  <1>1. ASSUME StartBegin PROVE NoOrphanConn' /\ CurrentConnIsRead'
    BY <1>1 DEF StartBegin
  <1>2. ASSUME StartClient PROVE NoOrphanConn' /\ CurrentConnIsRead'
    BY <1>2 DEF StartClient
  <1>3. ASSUME NEW c \in Conns, StartDialOk(c) PROVE NoOrphanConn' /\ CurrentConnIsRead'
    BY <1>3, StartDialOkConn
  <1>4. ASSUME StartDialFails PROVE NoOrphanConn' /\ CurrentConnIsRead'
    BY <1>4, StartDialFailsConn
  <1>5. ASSUME StartInstall PROVE NoOrphanConn' /\ CurrentConnIsRead'
    BY <1>5 DEF StartInstall
  <1>6. ASSUME StartStatus PROVE NoOrphanConn' /\ CurrentConnIsRead'
    BY <1>6 DEF StartStatus
  <1>7. ASSUME StartListen PROVE NoOrphanConn' /\ CurrentConnIsRead'
    BY <1>7 DEF StartListen
  <1>8. ASSUME StartSetListener PROVE NoOrphanConn' /\ CurrentConnIsRead'
    BY <1>8 DEF StartSetListener
  <1>9. ASSUME StartServe PROVE NoOrphanConn' /\ CurrentConnIsRead'
    BY <1>9 DEF StartServe
  <1>10. ASSUME StartRest PROVE NoOrphanConn' /\ CurrentConnIsRead'
    BY <1>10 DEF StartRest
  <1>11. ASSUME StartSetError PROVE NoOrphanConn' /\ CurrentConnIsRead'
    BY <1>11 DEF StartSetError
  <1>12. ASSUME StartUnmap PROVE NoOrphanConn' /\ CurrentConnIsRead'
    BY <1>12 DEF StartUnmap
  <1>13. ASSUME StopSerialGraph PROVE NoOrphanConn' /\ CurrentConnIsRead'
    BY <1>13 DEF StopSerialGraph
  <1>14. ASSUME NEW p \in Stoppers, StopEnter(p) PROVE NoOrphanConn' /\ CurrentConnIsRead'
    BY <1>14 DEF StopEnter
  <1>15. ASSUME NEW p \in Stoppers, StopAgain(p) PROVE NoOrphanConn' /\ CurrentConnIsRead'
    BY <1>15 DEF StopAgain
  <1>16. ASSUME NEW p \in Stoppers, StopCancel(p) PROVE NoOrphanConn' /\ CurrentConnIsRead'
    BY <1>16 DEF StopCancel
  <1>17. ASSUME NEW p \in Stoppers, StopListener(p) PROVE NoOrphanConn' /\ CurrentConnIsRead'
    BY <1>17 DEF StopListener
  <1>18. ASSUME NEW p \in Stoppers, StopConn(p) PROVE NoOrphanConn' /\ CurrentConnIsRead'
    BY <1>18 DEF StopConn
  <1>19. ASSUME NEW c \in Conns, AcceptOk(c) PROVE NoOrphanConn' /\ CurrentConnIsRead'
    BY <1>19, AcceptOkConn
  <1>20. ASSUME AcceptFails PROVE NoOrphanConn' /\ CurrentConnIsRead'
    BY <1>20 DEF AcceptFails
  <1>21. ASSUME AcceptInstall PROVE NoOrphanConn' /\ CurrentConnIsRead'
    BY <1>21 DEF AcceptInstall
  <1>22. ASSUME AcceptStatus PROVE NoOrphanConn' /\ CurrentConnIsRead'
    BY <1>22 DEF AcceptStatus
  <1>23. ASSUME NEW c \in Conns, ReaderCheck(c) PROVE NoOrphanConn' /\ CurrentConnIsRead'
    BY <1>23 DEF ReaderCheck
  <1>24. ASSUME NEW c \in Conns, ReaderCancelled(c) PROVE NoOrphanConn' /\ CurrentConnIsRead'
    BY <1>24 DEF ReaderCancelled
  <1>25. ASSUME NEW c \in Conns, ReaderData(c) PROVE NoOrphanConn' /\ CurrentConnIsRead'
    BY <1>25 DEF ReaderData
  <1>26. ASSUME NEW c \in Conns, ReaderFails(c) PROVE NoOrphanConn' /\ CurrentConnIsRead'
    BY <1>26 DEF ReaderFails
  <1>27. ASSUME NEW c \in Conns, ReaderStopped(c) PROVE NoOrphanConn' /\ CurrentConnIsRead'
    BY <1>27 DEF ReaderStopped
  <1>28. ASSUME NEW c \in Conns, ReaderFailed(c) PROVE NoOrphanConn' /\ CurrentConnIsRead'
    BY <1>28 DEF ReaderFailed
  <1>29. ASSUME NEW c \in Conns, ReaderDetach(c) PROVE NoOrphanConn' /\ CurrentConnIsRead'
    BY <1>29 DEF ReaderDetach
  <1>30. ASSUME NEW c \in Conns, ReaderReplaced(c) PROVE NoOrphanConn' /\ CurrentConnIsRead'
    BY <1>30 DEF ReaderReplaced
  <1>31. ASSUME NEW c \in Conns, ReaderReconnect(c) PROVE NoOrphanConn' /\ CurrentConnIsRead'
    BY <1>31 DEF ReaderReconnect
  <1>32. ASSUME NEW c \in Conns, ReaderDropped(c) PROVE NoOrphanConn' /\ CurrentConnIsRead'
    BY <1>32 DEF ReaderDropped
  <1>33. ASSUME NEW c \in Conns, Break(c) PROVE NoOrphanConn' /\ CurrentConnIsRead'
    BY <1>33, BreakConn
  <1>34. ASSUME NEW k \in Keys, RecBegin(k) PROVE NoOrphanConn' /\ CurrentConnIsRead'
    BY <1>34, SMTT(30) DEF RecBegin
  <1>35. ASSUME NEW k \in Keys, RecRefused(k) PROVE NoOrphanConn' /\ CurrentConnIsRead'
    BY <1>35 DEF RecRefused
  <1>36. ASSUME NEW k \in Keys, RecCancelled(k) PROVE NoOrphanConn' /\ CurrentConnIsRead'
    BY <1>36 DEF RecCancelled
  <1>37. ASSUME NEW k \in Keys, RecTimer(k) PROVE NoOrphanConn' /\ CurrentConnIsRead'
    BY <1>37 DEF RecTimer
  <1>38. ASSUME NEW k \in Keys, NEW c \in Conns, RecDialOk(k, c) PROVE NoOrphanConn' /\ CurrentConnIsRead'
    BY <1>38 DEF RecDialOk, Fresh
  <1>39. ASSUME NEW k \in Keys, RecDialFails(k) PROVE NoOrphanConn' /\ CurrentConnIsRead'
    BY <1>39 DEF RecDialFails
  <1>40. ASSUME NEW k \in Keys, RecEnd(k) PROVE NoOrphanConn' /\ CurrentConnIsRead'
    BY <1>40 DEF RecEnd
  <1>41. ASSUME NEW k \in Keys, RecInstall(k) PROVE NoOrphanConn' /\ CurrentConnIsRead'
    BY <1>41 DEF RecInstall
  <1>42. ASSUME NEW k \in Keys, RecStatus(k) PROVE NoOrphanConn' /\ CurrentConnIsRead'
    BY <1>42, RecStatusConn
  <1>43. ASSUME NEW w \in Writers, WriteBegin(w) PROVE NoOrphanConn' /\ CurrentConnIsRead'
    BY <1>43 DEF WriteBegin
  <1>44. ASSUME NEW w \in Writers, WriteConn(w) PROVE NoOrphanConn' /\ CurrentConnIsRead'
    BY <1>44 DEF WriteConn
  <1>45. ASSUME NEW w \in Writers, WriteNoConn(w) PROVE NoOrphanConn' /\ CurrentConnIsRead'
    BY <1>45 DEF WriteNoConn
  <1>46. ASSUME NEW w \in Writers, WriteNil(w) PROVE NoOrphanConn' /\ CurrentConnIsRead'
    BY <1>46 DEF WriteNil
  <1>47. ASSUME NEW w \in Writers, WriteOk(w) PROVE NoOrphanConn' /\ CurrentConnIsRead'
    BY <1>47 DEF WriteOk
  <1>48. ASSUME NEW w \in Writers, WriteFails(w) PROVE NoOrphanConn' /\ CurrentConnIsRead'
    BY <1>48 DEF WriteFails
  <1>49. ASSUME NEW w \in Writers, WriteDetach(w) PROVE NoOrphanConn' /\ CurrentConnIsRead'
    BY <1>49, WriteDetachConn
  <1>50. ASSUME NEW w \in Writers, WriteReplaced(w) PROVE NoOrphanConn' /\ CurrentConnIsRead'
    BY <1>50, WriteReplacedConn
  <1>51. ASSUME NEW w \in Writers, WriteDetached(w) PROVE NoOrphanConn' /\ CurrentConnIsRead'
    BY <1>51 DEF WriteDetached
  <1>52. ASSUME NEW w \in Writers, WriteDropped(w) PROVE NoOrphanConn' /\ CurrentConnIsRead'
    BY <1>52 DEF WriteDropped
  <1>53. ASSUME NEW w \in Writers, WriteReconnect(w) PROVE NoOrphanConn' /\ CurrentConnIsRead'
    BY <1>53 DEF WriteReconnect
  <1>54. ASSUME UNCHANGED vars PROVE NoOrphanConn' /\ CurrentConnIsRead' BY <1>54 DEF vars
  <1> QED BY ONLY [Next]_vars, <1>1, <1>2, <1>3, <1>4, <1>5, <1>6, <1>7, <1>8,
      <1>9, <1>10, <1>11, <1>12, <1>13, <1>14, <1>15, <1>16, <1>17, <1>18, <1>19,
      <1>20, <1>21, <1>22, <1>23, <1>24, <1>25, <1>26, <1>27, <1>28, <1>29, <1>30,
      <1>31, <1>32, <1>33, <1>34, <1>35, <1>36, <1>37, <1>38, <1>39, <1>40, <1>41,
      <1>42, <1>43, <1>44, <1>45, <1>46, <1>47, <1>48, <1>49, <1>50, <1>51, <1>52,
      <1>53, <1>54 DEF Next, StarterNext, StopNext, AcceptNext, ReaderNext,
      RecNext, WriterNext, vars

\* The reconnect guard stays exact.
LEMMA LoopStep == ASSUME IInv, [Next]_vars PROVE OneReconnectLoop'
  <1> USE ConnsAssumption DEF IInv, TypeOK, Keys, StarterStates, AcceptStates,
      ReaderStates, RecStates, WriterStates, Hands, OneReconnectLoop,
      OneRecoverer, Detacher, LocalsMatch
  <1>1. ASSUME StartBegin PROVE OneReconnectLoop' BY <1>1 DEF StartBegin
  <1>2. ASSUME StartClient PROVE OneReconnectLoop' BY <1>2 DEF StartClient
  <1>3. ASSUME NEW c \in Conns, StartDialOk(c) PROVE OneReconnectLoop'
    BY <1>3 DEF StartDialOk, Fresh
  <1>4. ASSUME StartDialFails PROVE OneReconnectLoop' BY <1>4 DEF StartDialFails
  <1>5. ASSUME StartInstall PROVE OneReconnectLoop' BY <1>5 DEF StartInstall
  <1>6. ASSUME StartStatus PROVE OneReconnectLoop' BY <1>6 DEF StartStatus
  <1>7. ASSUME StartListen PROVE OneReconnectLoop' BY <1>7 DEF StartListen
  <1>8. ASSUME StartSetListener PROVE OneReconnectLoop' BY <1>8 DEF StartSetListener
  <1>9. ASSUME StartServe PROVE OneReconnectLoop' BY <1>9 DEF StartServe
  <1>10. ASSUME StartRest PROVE OneReconnectLoop' BY <1>10 DEF StartRest
  <1>11. ASSUME StartSetError PROVE OneReconnectLoop' BY <1>11 DEF StartSetError
  <1>12. ASSUME StartUnmap PROVE OneReconnectLoop' BY <1>12 DEF StartUnmap
  <1>13. ASSUME StopSerialGraph PROVE OneReconnectLoop' BY <1>13 DEF StopSerialGraph
  <1>14. ASSUME NEW p \in Stoppers, StopEnter(p) PROVE OneReconnectLoop'
    BY <1>14 DEF StopEnter
  <1>15. ASSUME NEW p \in Stoppers, StopAgain(p) PROVE OneReconnectLoop'
    BY <1>15 DEF StopAgain
  <1>16. ASSUME NEW p \in Stoppers, StopCancel(p) PROVE OneReconnectLoop'
    BY <1>16 DEF StopCancel
  <1>17. ASSUME NEW p \in Stoppers, StopListener(p) PROVE OneReconnectLoop'
    BY <1>17 DEF StopListener
  <1>18. ASSUME NEW p \in Stoppers, StopConn(p) PROVE OneReconnectLoop'
    BY <1>18 DEF StopConn
  <1>19. ASSUME NEW c \in Conns, AcceptOk(c) PROVE OneReconnectLoop'
    BY <1>19 DEF AcceptOk, Fresh
  <1>20. ASSUME AcceptFails PROVE OneReconnectLoop' BY <1>20 DEF AcceptFails
  <1>21. ASSUME AcceptInstall PROVE OneReconnectLoop' BY <1>21 DEF AcceptInstall
  <1>22. ASSUME AcceptStatus PROVE OneReconnectLoop' BY <1>22 DEF AcceptStatus
  <1>23. ASSUME NEW c \in Conns, ReaderCheck(c) PROVE OneReconnectLoop'
    BY <1>23 DEF ReaderCheck
  <1>24. ASSUME NEW c \in Conns, ReaderCancelled(c) PROVE OneReconnectLoop'
    BY <1>24 DEF ReaderCancelled
  <1>25. ASSUME NEW c \in Conns, ReaderData(c) PROVE OneReconnectLoop'
    BY <1>25 DEF ReaderData
  <1>26. ASSUME NEW c \in Conns, ReaderFails(c) PROVE OneReconnectLoop'
    BY <1>26 DEF ReaderFails
  <1>27. ASSUME NEW c \in Conns, ReaderStopped(c) PROVE OneReconnectLoop'
    BY <1>27 DEF ReaderStopped
  <1>28. ASSUME NEW c \in Conns, ReaderFailed(c) PROVE OneReconnectLoop'
    BY <1>28 DEF ReaderFailed
  <1>29. ASSUME NEW c \in Conns, ReaderDetach(c) PROVE OneReconnectLoop'
    BY <1>29 DEF ReaderDetach
  <1>30. ASSUME NEW c \in Conns, ReaderReplaced(c) PROVE OneReconnectLoop'
    BY <1>30 DEF ReaderReplaced
  <1>31. ASSUME NEW c \in Conns, ReaderReconnect(c) PROVE OneReconnectLoop'
    BY <1>31 DEF ReaderReconnect
  <1>32. ASSUME NEW c \in Conns, ReaderDropped(c) PROVE OneReconnectLoop'
    BY <1>32 DEF ReaderDropped
  <1>33. ASSUME NEW c \in Conns, Break(c) PROVE OneReconnectLoop' BY <1>33 DEF Break
  <1>34. ASSUME NEW k \in Keys, RecBegin(k) PROVE OneReconnectLoop'
    BY <1>34 DEF RecBegin
  <1>35. ASSUME NEW k \in Keys, RecRefused(k) PROVE OneReconnectLoop'
    BY <1>35 DEF RecRefused
  <1>36. ASSUME NEW k \in Keys, RecCancelled(k) PROVE OneReconnectLoop'
    BY <1>36 DEF RecCancelled
  <1>37. ASSUME NEW k \in Keys, RecTimer(k) PROVE OneReconnectLoop'
    BY <1>37 DEF RecTimer
  <1>38. ASSUME NEW k \in Keys, NEW c \in Conns, RecDialOk(k, c) PROVE OneReconnectLoop'
    BY <1>38 DEF RecDialOk, Fresh
  <1>39. ASSUME NEW k \in Keys, RecDialFails(k) PROVE OneReconnectLoop'
    BY <1>39 DEF RecDialFails
  <1>40. ASSUME NEW k \in Keys, RecEnd(k) PROVE OneReconnectLoop' BY <1>40 DEF RecEnd
  <1>41. ASSUME NEW k \in Keys, RecInstall(k) PROVE OneReconnectLoop'
    BY <1>41 DEF RecInstall
  <1>42. ASSUME NEW k \in Keys, RecStatus(k) PROVE OneReconnectLoop'
    BY <1>42 DEF RecStatus
  <1>43. ASSUME NEW w \in Writers, WriteBegin(w) PROVE OneReconnectLoop'
    BY <1>43 DEF WriteBegin
  <1>44. ASSUME NEW w \in Writers, WriteConn(w) PROVE OneReconnectLoop'
    BY <1>44 DEF WriteConn
  <1>45. ASSUME NEW w \in Writers, WriteNoConn(w) PROVE OneReconnectLoop'
    BY <1>45 DEF WriteNoConn
  <1>46. ASSUME NEW w \in Writers, WriteNil(w) PROVE OneReconnectLoop'
    BY <1>46 DEF WriteNil
  <1>47. ASSUME NEW w \in Writers, WriteOk(w) PROVE OneReconnectLoop'
    BY <1>47 DEF WriteOk
  <1>48. ASSUME NEW w \in Writers, WriteFails(w) PROVE OneReconnectLoop'
    BY <1>48 DEF WriteFails
  <1>49. ASSUME NEW w \in Writers, WriteDetach(w) PROVE OneReconnectLoop'
    BY <1>49 DEF WriteDetach
  <1>50. ASSUME NEW w \in Writers, WriteReplaced(w) PROVE OneReconnectLoop'
    BY <1>50 DEF WriteReplaced
  <1>51. ASSUME NEW w \in Writers, WriteDetached(w) PROVE OneReconnectLoop'
    BY <1>51 DEF WriteDetached
  <1>52. ASSUME NEW w \in Writers, WriteDropped(w) PROVE OneReconnectLoop'
    BY <1>52 DEF WriteDropped
  <1>53. ASSUME NEW w \in Writers, WriteReconnect(w) PROVE OneReconnectLoop'
    BY <1>53 DEF WriteReconnect
  <1>54. ASSUME UNCHANGED vars PROVE OneReconnectLoop' BY <1>54 DEF vars
  <1> QED BY ONLY [Next]_vars, <1>1, <1>2, <1>3, <1>4, <1>5, <1>6, <1>7, <1>8,
      <1>9, <1>10, <1>11, <1>12, <1>13, <1>14, <1>15, <1>16, <1>17, <1>18, <1>19,
      <1>20, <1>21, <1>22, <1>23, <1>24, <1>25, <1>26, <1>27, <1>28, <1>29, <1>30,
      <1>31, <1>32, <1>33, <1>34, <1>35, <1>36, <1>37, <1>38, <1>39, <1>40, <1>41,
      <1>42, <1>43, <1>44, <1>45, <1>46, <1>47, <1>48, <1>49, <1>50, <1>51, <1>52,
      <1>53, <1>54 DEF Next, StarterNext, StopNext, AcceptNext, ReaderNext,
      RecNext, WriterNext, vars

\* A client keeps recovering one loss at a time, and forgets none.
LEMMA RecoveryStep == ASSUME IInv, [Next]_vars PROVE ClientRecovery' /\ NotForgotten'
  <1> USE ConnsAssumption DEF IInv, TypeOK, Keys, StarterStates, AcceptStates,
      ReaderStates, RecStates, WriterStates, Hands, ClientRecovery, NotForgotten,
      Recovering, LocalsMatch, OneRecoverer, Detacher, OneHolder, Holds,
      StopCauses, Stopping, Stoppers, StopperStates, OneReconnectLoop
  <1>1. ASSUME StartBegin PROVE ClientRecovery' /\ NotForgotten' BY <1>1 DEF StartBegin
  <1>2. ASSUME StartClient PROVE ClientRecovery' /\ NotForgotten'
    BY <1>2 DEF StartClient
  <1>3. ASSUME NEW c \in Conns, StartDialOk(c) PROVE ClientRecovery' /\ NotForgotten'
    BY <1>3 DEF StartDialOk, Fresh
  <1>4. ASSUME StartDialFails PROVE ClientRecovery' /\ NotForgotten'
    BY <1>4 DEF StartDialFails
  <1>5. ASSUME StartInstall PROVE ClientRecovery' /\ NotForgotten'
    BY <1>5 DEF StartInstall
  <1>6. ASSUME StartStatus PROVE ClientRecovery' /\ NotForgotten'
    BY <1>6 DEF StartStatus
  <1>7. ASSUME StartListen PROVE ClientRecovery' /\ NotForgotten'
    BY <1>7 DEF StartListen
  <1>8. ASSUME StartSetListener PROVE ClientRecovery' /\ NotForgotten'
    BY <1>8 DEF StartSetListener
  <1>9. ASSUME StartServe PROVE ClientRecovery' /\ NotForgotten' BY <1>9 DEF StartServe
  <1>10. ASSUME StartRest PROVE ClientRecovery' /\ NotForgotten' BY <1>10 DEF StartRest
  <1>11. ASSUME StartSetError PROVE ClientRecovery' /\ NotForgotten'
    BY <1>11 DEF StartSetError
  <1>12. ASSUME StartUnmap PROVE ClientRecovery' /\ NotForgotten'
    BY <1>12 DEF StartUnmap
  <1>13. ASSUME StopSerialGraph PROVE ClientRecovery' /\ NotForgotten'
    BY <1>13 DEF StopSerialGraph
  <1>14. ASSUME NEW p \in Stoppers, StopEnter(p) PROVE ClientRecovery' /\ NotForgotten'
    BY <1>14 DEF StopEnter
  <1>15. ASSUME NEW p \in Stoppers, StopAgain(p) PROVE ClientRecovery' /\ NotForgotten'
    BY <1>15 DEF StopAgain
  <1>16. ASSUME NEW p \in Stoppers, StopCancel(p) PROVE ClientRecovery' /\ NotForgotten'
    BY <1>16 DEF StopCancel
  <1>17. ASSUME NEW p \in Stoppers, StopListener(p) PROVE ClientRecovery' /\ NotForgotten'
    BY <1>17 DEF StopListener
  <1>18. ASSUME NEW p \in Stoppers, StopConn(p) PROVE ClientRecovery' /\ NotForgotten'
    BY <1>18 DEF StopConn
  <1>19. ASSUME NEW c \in Conns, AcceptOk(c) PROVE ClientRecovery' /\ NotForgotten'
    BY <1>19 DEF AcceptOk, Fresh
  <1>20. ASSUME AcceptFails PROVE ClientRecovery' /\ NotForgotten'
    BY <1>20 DEF AcceptFails
  <1>21. ASSUME AcceptInstall PROVE ClientRecovery' /\ NotForgotten'
    BY <1>21 DEF AcceptInstall
  <1>22. ASSUME AcceptStatus PROVE ClientRecovery' /\ NotForgotten'
    BY <1>22 DEF AcceptStatus
  <1>23. ASSUME NEW c \in Conns, ReaderCheck(c) PROVE ClientRecovery' /\ NotForgotten'
    BY <1>23 DEF ReaderCheck
  <1>24. ASSUME NEW c \in Conns, ReaderCancelled(c) PROVE ClientRecovery' /\ NotForgotten'
    BY <1>24 DEF ReaderCancelled
  <1>25. ASSUME NEW c \in Conns, ReaderData(c) PROVE ClientRecovery' /\ NotForgotten'
    BY <1>25 DEF ReaderData
  <1>26. ASSUME NEW c \in Conns, ReaderFails(c) PROVE ClientRecovery' /\ NotForgotten'
    BY <1>26 DEF ReaderFails
  <1>27. ASSUME NEW c \in Conns, ReaderStopped(c) PROVE ClientRecovery' /\ NotForgotten'
    BY <1>27 DEF ReaderStopped
  <1>28. ASSUME NEW c \in Conns, ReaderFailed(c) PROVE ClientRecovery' /\ NotForgotten'
    BY <1>28 DEF ReaderFailed
  <1>29. ASSUME NEW c \in Conns, ReaderDetach(c) PROVE ClientRecovery' /\ NotForgotten'
    BY <1>29 DEF ReaderDetach
  <1>30. ASSUME NEW c \in Conns, ReaderReplaced(c) PROVE ClientRecovery' /\ NotForgotten'
    BY <1>30 DEF ReaderReplaced
  <1>31. ASSUME NEW c \in Conns, ReaderReconnect(c) PROVE ClientRecovery' /\ NotForgotten'
    BY <1>31 DEF ReaderReconnect
  <1>32. ASSUME NEW c \in Conns, ReaderDropped(c) PROVE ClientRecovery' /\ NotForgotten'
    BY <1>32 DEF ReaderDropped
  <1>33. ASSUME NEW c \in Conns, Break(c) PROVE ClientRecovery' /\ NotForgotten'
    BY <1>33 DEF Break
  <1>34. ASSUME NEW k \in Keys, RecBegin(k) PROVE ClientRecovery' /\ NotForgotten'
    BY <1>34 DEF RecBegin
  <1>35. ASSUME NEW k \in Keys, RecRefused(k) PROVE ClientRecovery' /\ NotForgotten'
    BY <1>35 DEF RecRefused
  <1>36. ASSUME NEW k \in Keys, RecCancelled(k) PROVE ClientRecovery' /\ NotForgotten'
    BY <1>36 DEF RecCancelled
  <1>37. ASSUME NEW k \in Keys, RecTimer(k) PROVE ClientRecovery' /\ NotForgotten'
    BY <1>37 DEF RecTimer
  <1>38. ASSUME NEW k \in Keys, NEW c \in Conns, RecDialOk(k, c) PROVE ClientRecovery' /\ NotForgotten'
    BY <1>38 DEF RecDialOk, Fresh
  <1>39. ASSUME NEW k \in Keys, RecDialFails(k) PROVE ClientRecovery' /\ NotForgotten'
    BY <1>39 DEF RecDialFails
  <1>40. ASSUME NEW k \in Keys, RecEnd(k) PROVE ClientRecovery' /\ NotForgotten'
    BY <1>40 DEF RecEnd
  <1>41. ASSUME NEW k \in Keys, RecInstall(k) PROVE ClientRecovery' /\ NotForgotten'
    BY <1>41 DEF RecInstall
  <1>42. ASSUME NEW k \in Keys, RecStatus(k) PROVE ClientRecovery' /\ NotForgotten'
    BY <1>42 DEF RecStatus
  <1>43. ASSUME NEW w \in Writers, WriteBegin(w) PROVE ClientRecovery' /\ NotForgotten'
    BY <1>43 DEF WriteBegin
  <1>44. ASSUME NEW w \in Writers, WriteConn(w) PROVE ClientRecovery' /\ NotForgotten'
    BY <1>44 DEF WriteConn
  <1>45. ASSUME NEW w \in Writers, WriteNoConn(w) PROVE ClientRecovery' /\ NotForgotten'
    BY <1>45 DEF WriteNoConn
  <1>46. ASSUME NEW w \in Writers, WriteNil(w) PROVE ClientRecovery' /\ NotForgotten'
    BY <1>46 DEF WriteNil
  <1>47. ASSUME NEW w \in Writers, WriteOk(w) PROVE ClientRecovery' /\ NotForgotten'
    BY <1>47 DEF WriteOk
  <1>48. ASSUME NEW w \in Writers, WriteFails(w) PROVE ClientRecovery' /\ NotForgotten'
    BY <1>48 DEF WriteFails
  <1>49. ASSUME NEW w \in Writers, WriteDetach(w) PROVE ClientRecovery' /\ NotForgotten'
    BY <1>49 DEF WriteDetach
  <1>50. ASSUME NEW w \in Writers, WriteReplaced(w) PROVE ClientRecovery' /\ NotForgotten'
    BY <1>50 DEF WriteReplaced
  <1>51. ASSUME NEW w \in Writers, WriteDetached(w) PROVE ClientRecovery' /\ NotForgotten'
    BY <1>51 DEF WriteDetached
  <1>52. ASSUME NEW w \in Writers, WriteDropped(w) PROVE ClientRecovery' /\ NotForgotten'
    BY <1>52 DEF WriteDropped
  <1>53. ASSUME NEW w \in Writers, WriteReconnect(w) PROVE ClientRecovery' /\ NotForgotten'
    BY <1>53 DEF WriteReconnect
  <1>54. ASSUME UNCHANGED vars PROVE ClientRecovery' /\ NotForgotten' BY <1>54 DEF vars
  <1> QED BY ONLY [Next]_vars, <1>1, <1>2, <1>3, <1>4, <1>5, <1>6, <1>7, <1>8,
      <1>9, <1>10, <1>11, <1>12, <1>13, <1>14, <1>15, <1>16, <1>17, <1>18, <1>19,
      <1>20, <1>21, <1>22, <1>23, <1>24, <1>25, <1>26, <1>27, <1>28, <1>29, <1>30,
      <1>31, <1>32, <1>33, <1>34, <1>35, <1>36, <1>37, <1>38, <1>39, <1>40, <1>41,
      <1>42, <1>43, <1>44, <1>45, <1>46, <1>47, <1>48, <1>49, <1>50, <1>51, <1>52,
      <1>53, <1>54 DEF Next, StarterNext, StopNext, AcceptNext, ReaderNext,
      RecNext, WriterNext, vars

\* stop() still reaches every reader of a context it cancelled.
LEMMA StopStep == ASSUME IInv, [Next]_vars PROVE StopCauses' /\ StopReachesReaders'
  <1> USE ConnsAssumption DEF IInv, TypeOK, Keys, StarterStates, AcceptStates,
      ReaderStates, RecStates, WriterStates, Hands, StopCauses, Stopping,
      Stoppers, StopperStates, StopReachesReaders, Unclosed, NoOrphanConn, InHand,
      OneHolder, Holds
  <1>1. ASSUME StartBegin PROVE StopCauses' /\ StopReachesReaders'
    BY <1>1 DEF StartBegin
  <1>2. ASSUME StartClient PROVE StopCauses' /\ StopReachesReaders'
    BY <1>2 DEF StartClient
  <1>3. ASSUME NEW c \in Conns, StartDialOk(c) PROVE StopCauses' /\ StopReachesReaders'
    BY <1>3 DEF StartDialOk, Fresh
  <1>4. ASSUME StartDialFails PROVE StopCauses' /\ StopReachesReaders'
    BY <1>4 DEF StartDialFails
  <1>5. ASSUME StartInstall PROVE StopCauses' /\ StopReachesReaders'
    BY <1>5 DEF StartInstall
  <1>6. ASSUME StartStatus PROVE StopCauses' /\ StopReachesReaders'
    BY <1>6 DEF StartStatus
  <1>7. ASSUME StartListen PROVE StopCauses' /\ StopReachesReaders'
    BY <1>7 DEF StartListen
  <1>8. ASSUME StartSetListener PROVE StopCauses' /\ StopReachesReaders'
    BY <1>8 DEF StartSetListener
  <1>9. ASSUME StartServe PROVE StopCauses' /\ StopReachesReaders'
    BY <1>9 DEF StartServe
  <1>10. ASSUME StartRest PROVE StopCauses' /\ StopReachesReaders'
    BY <1>10 DEF StartRest
  <1>11. ASSUME StartSetError PROVE StopCauses' /\ StopReachesReaders'
    BY <1>11 DEF StartSetError
  <1>12. ASSUME StartUnmap PROVE StopCauses' /\ StopReachesReaders'
    BY <1>12 DEF StartUnmap
  <1>13. ASSUME StopSerialGraph PROVE StopCauses' /\ StopReachesReaders'
    BY <1>13 DEF StopSerialGraph
  <1>14. ASSUME NEW p \in Stoppers, StopEnter(p) PROVE StopCauses' /\ StopReachesReaders'
    BY <1>14 DEF StopEnter
  <1>15. ASSUME NEW p \in Stoppers, StopAgain(p) PROVE StopCauses' /\ StopReachesReaders'
    BY <1>15 DEF StopAgain
  <1>16. ASSUME NEW p \in Stoppers, StopCancel(p) PROVE StopCauses' /\ StopReachesReaders'
    BY <1>16 DEF StopCancel
  <1>17. ASSUME NEW p \in Stoppers, StopListener(p) PROVE StopCauses' /\ StopReachesReaders'
    BY <1>17 DEF StopListener
  <1>18. ASSUME NEW p \in Stoppers, StopConn(p) PROVE StopCauses' /\ StopReachesReaders'
    BY <1>18 DEF StopConn
  <1>19. ASSUME NEW c \in Conns, AcceptOk(c) PROVE StopCauses' /\ StopReachesReaders'
    BY <1>19 DEF AcceptOk, Fresh
  <1>20. ASSUME AcceptFails PROVE StopCauses' /\ StopReachesReaders'
    BY <1>20 DEF AcceptFails
  <1>21. ASSUME AcceptInstall PROVE StopCauses' /\ StopReachesReaders'
    BY <1>21 DEF AcceptInstall
  <1>22. ASSUME AcceptStatus PROVE StopCauses' /\ StopReachesReaders'
    BY <1>22 DEF AcceptStatus
  <1>23. ASSUME NEW c \in Conns, ReaderCheck(c) PROVE StopCauses' /\ StopReachesReaders'
    BY <1>23 DEF ReaderCheck
  <1>24. ASSUME NEW c \in Conns, ReaderCancelled(c) PROVE StopCauses' /\ StopReachesReaders'
    BY <1>24 DEF ReaderCancelled
  <1>25. ASSUME NEW c \in Conns, ReaderData(c) PROVE StopCauses' /\ StopReachesReaders'
    BY <1>25 DEF ReaderData
  <1>26. ASSUME NEW c \in Conns, ReaderFails(c) PROVE StopCauses' /\ StopReachesReaders'
    BY <1>26 DEF ReaderFails
  <1>27. ASSUME NEW c \in Conns, ReaderStopped(c) PROVE StopCauses' /\ StopReachesReaders'
    BY <1>27 DEF ReaderStopped
  <1>28. ASSUME NEW c \in Conns, ReaderFailed(c) PROVE StopCauses' /\ StopReachesReaders'
    BY <1>28 DEF ReaderFailed
  <1>29. ASSUME NEW c \in Conns, ReaderDetach(c) PROVE StopCauses' /\ StopReachesReaders'
    BY <1>29 DEF ReaderDetach
  <1>30. ASSUME NEW c \in Conns, ReaderReplaced(c) PROVE StopCauses' /\ StopReachesReaders'
    BY <1>30 DEF ReaderReplaced
  <1>31. ASSUME NEW c \in Conns, ReaderReconnect(c) PROVE StopCauses' /\ StopReachesReaders'
    BY <1>31 DEF ReaderReconnect
  <1>32. ASSUME NEW c \in Conns, ReaderDropped(c) PROVE StopCauses' /\ StopReachesReaders'
    BY <1>32 DEF ReaderDropped
  <1>33. ASSUME NEW c \in Conns, Break(c) PROVE StopCauses' /\ StopReachesReaders'
    BY <1>33 DEF Break
  <1>34. ASSUME NEW k \in Keys, RecBegin(k) PROVE StopCauses' /\ StopReachesReaders'
    BY <1>34 DEF RecBegin
  <1>35. ASSUME NEW k \in Keys, RecRefused(k) PROVE StopCauses' /\ StopReachesReaders'
    BY <1>35 DEF RecRefused
  <1>36. ASSUME NEW k \in Keys, RecCancelled(k) PROVE StopCauses' /\ StopReachesReaders'
    BY <1>36 DEF RecCancelled
  <1>37. ASSUME NEW k \in Keys, RecTimer(k) PROVE StopCauses' /\ StopReachesReaders'
    BY <1>37 DEF RecTimer
  <1>38. ASSUME NEW k \in Keys, NEW c \in Conns, RecDialOk(k, c) PROVE StopCauses' /\ StopReachesReaders'
    BY <1>38 DEF RecDialOk, Fresh
  <1>39. ASSUME NEW k \in Keys, RecDialFails(k) PROVE StopCauses' /\ StopReachesReaders'
    BY <1>39 DEF RecDialFails
  <1>40. ASSUME NEW k \in Keys, RecEnd(k) PROVE StopCauses' /\ StopReachesReaders'
    BY <1>40 DEF RecEnd
  <1>41. ASSUME NEW k \in Keys, RecInstall(k) PROVE StopCauses' /\ StopReachesReaders'
    BY <1>41 DEF RecInstall
  <1>42. ASSUME NEW k \in Keys, RecStatus(k) PROVE StopCauses' /\ StopReachesReaders'
    BY <1>42 DEF RecStatus
  <1>43. ASSUME NEW w \in Writers, WriteBegin(w) PROVE StopCauses' /\ StopReachesReaders'
    BY <1>43 DEF WriteBegin
  <1>44. ASSUME NEW w \in Writers, WriteConn(w) PROVE StopCauses' /\ StopReachesReaders'
    BY <1>44 DEF WriteConn
  <1>45. ASSUME NEW w \in Writers, WriteNoConn(w) PROVE StopCauses' /\ StopReachesReaders'
    BY <1>45 DEF WriteNoConn
  <1>46. ASSUME NEW w \in Writers, WriteNil(w) PROVE StopCauses' /\ StopReachesReaders'
    BY <1>46 DEF WriteNil
  <1>47. ASSUME NEW w \in Writers, WriteOk(w) PROVE StopCauses' /\ StopReachesReaders'
    BY <1>47 DEF WriteOk
  <1>48. ASSUME NEW w \in Writers, WriteFails(w) PROVE StopCauses' /\ StopReachesReaders'
    BY <1>48 DEF WriteFails
  <1>49. ASSUME NEW w \in Writers, WriteDetach(w) PROVE StopCauses' /\ StopReachesReaders'
    BY <1>49 DEF WriteDetach
  <1>50. ASSUME NEW w \in Writers, WriteReplaced(w) PROVE StopCauses' /\ StopReachesReaders'
    BY <1>50 DEF WriteReplaced
  <1>51. ASSUME NEW w \in Writers, WriteDetached(w) PROVE StopCauses' /\ StopReachesReaders'
    BY <1>51 DEF WriteDetached
  <1>52. ASSUME NEW w \in Writers, WriteDropped(w) PROVE StopCauses' /\ StopReachesReaders'
    BY <1>52 DEF WriteDropped
  <1>53. ASSUME NEW w \in Writers, WriteReconnect(w) PROVE StopCauses' /\ StopReachesReaders'
    BY <1>53 DEF WriteReconnect
  <1>54. ASSUME UNCHANGED vars PROVE StopCauses' /\ StopReachesReaders' BY <1>54 DEF vars
  <1> QED BY ONLY [Next]_vars, <1>1, <1>2, <1>3, <1>4, <1>5, <1>6, <1>7, <1>8,
      <1>9, <1>10, <1>11, <1>12, <1>13, <1>14, <1>15, <1>16, <1>17, <1>18, <1>19,
      <1>20, <1>21, <1>22, <1>23, <1>24, <1>25, <1>26, <1>27, <1>28, <1>29, <1>30,
      <1>31, <1>32, <1>33, <1>34, <1>35, <1>36, <1>37, <1>38, <1>39, <1>40, <1>41,
      <1>42, <1>43, <1>44, <1>45, <1>46, <1>47, <1>48, <1>49, <1>50, <1>51, <1>52,
      <1>53, <1>54 DEF Next, StarterNext, StopNext, AcceptNext, ReaderNext,
      RecNext, WriterNext, vars

-----------------------------------------------------------------------------
(* The theorems.                                                           *)

\* IInv holds initially.
LEMMA IInvInit == Init => IInv
  <1> SUFFICES ASSUME Init PROVE IInv
    OBVIOUS
  <1>1. TypeOK BY TypeInit
  <1> USE ConnsAssumption DEF Init, Keys
  <1>2. Hands
    BY DEF Hands, LocalsMatch, OneHolder, Holds, InHandPrivate, InHand, CurrentOpen,
       LostClosed, Detacher, OneRecoverer
  <1>3. NoOrphanConn /\ CurrentConnIsRead /\ OneReconnectLoop
    BY DEF NoOrphanConn, CurrentConnIsRead, OneReconnectLoop, Unclosed
  <1>4. ClientRecovery /\ NotForgotten
    BY DEF ClientRecovery, NotForgotten, Recovering
  <1>5. StopCauses /\ StopReachesReaders
    BY DEF StopCauses, StopReachesReaders, Stoppers
  <1> QED BY <1>1, <1>2, <1>3, <1>4, <1>5 DEF IInv

\* IInv is inductive.
THEOREM Inductive == Spec => []IInv
  <1>1. Init => IInv BY IInvInit
  <1>2. IInv /\ [Next]_vars => IInv'
    <2> SUFFICES ASSUME IInv, [Next]_vars PROVE IInv'
      OBVIOUS
    <2>1. TypeOK' BY TypeStep DEF IInv
    <2> QED BY <2>1, HandsStep, ConnStep, LoopStep, RecoveryStep, StopStep DEF IInv
  <1> QED BY <1>1, <1>2, PTL DEF Spec

\* The state is always well typed.
THEOREM TypeCorrect == Spec => []TypeOK
  <1>1. IInv => TypeOK BY DEF IInv
  <1> QED BY <1>1, Inductive, PTL

\* No TCP connection of a remote node leaks, and the one that writers use
\* always has, or is about to get, a reader.
THEOREM LookedAfter == Spec => []ConnsAreLookedAfter
  <1>1. IInv => ConnsAreLookedAfter BY DEF IInv, ConnsAreLookedAfter
  <1> QED BY <1>1, Inductive, PTL

\* remoteReconnectActive admits one reconnect loop and is released by it.
THEOREM GuardExact == Spec => []OneReconnectLoop
  <1>1. IInv => OneReconnectLoop BY DEF IInv
  <1> QED BY <1>1, Inductive, PTL

\* The loss of a client's connection is never forgotten before stop().
THEOREM NotLost == Spec => []ReconnectNotLost
  <1>1. IInv => ReconnectNotLost
    <2> SUFFICES ASSUME IInv, Supervised, remoteConn = NoConn
                 PROVE \E k \in Keys : /\ Recovering(k)
                                       /\ rec[k].pc = "begin" => ~reconnectActive
      BY DEF ReconnectNotLost
    <2>1. PICK k \in Keys : Recovering(k)
      BY DEF IInv, NotForgotten, Supervised
    <2>2. ASSUME rec[k].pc = "begin", reconnectActive PROVE FALSE
      <3>1. PICK j \in Keys : rec[j].pc \in {"wait", "dial", "end"}
        BY <2>2 DEF IInv, OneReconnectLoop
      <3>2. Recovering(j) BY <3>1 DEF Recovering
      <3>3. j = k BY <2>1, <3>2 DEF IInv, ClientRecovery, Supervised
      <3> QED BY <2>2, <3>1, <3>3
    <2> QED BY <2>1, <2>2
  <1> QED BY <1>1, Inductive, PTL

\* No reader is left blocked on a connection of a cancelled context.
THEOREM StopReaches == Spec => []StopReachesReaders
  <1>1. IInv => StopReachesReaders BY DEF IInv
  <1> QED BY <1>1, Inductive, PTL
=============================================================================
