--------------------------- MODULE InterruptsProofs ---------------------------
(***************************************************************************)
(* What Interrupts promises, proved for every set of devices, every period  *)
(* of the tick and every width of the cycle counter.  IrqInv is inductive:  *)
(* one lemma per action shows that the action preserves it.                 *)
(***************************************************************************)
EXTENDS Interrupts, WellFoundedInduction, TLAPS

(* The interrupt that _xt_isr_handler picks is one of those it was given.   *)
LEMMA FirstIsOne == ASSUME NEW s, s \subseteq INUM, s # {} PROVE First(s) \in s
  <1>1. s \subseteq Nat BY InterruptAssumption
  <1>2. PICK x \in s : \A y \in s : ~ (<<y, x>> \in OpToRel(<, Nat))
        BY <1>1, NatLessThanWellFounded, WFMin, Zenon
  <1>3. \A y \in s : x <= y
    <2> TAKE y \in s
    <2>1. <<y, x>>[1] = y /\ <<y, x>>[2] = x /\ <<y, x>> \in Nat \X Nat BY <1>1
    <2>2. ~ (y < x) BY <1>2, <2>1, Zenon DEF OpToRel
    <2> QED BY <1>1, <2>2
  <1> QED BY <1>3 DEF First

(* Arithmetic on the cycle counter.                                         *)
LEMMA WrappedType ==
    ASSUME NEW c \in Int, -CcountMod <= c, c < 2 * CcountMod
    PROVE  Wrapped(c) \in 0 .. CcountMod - 1
  BY InterruptAssumption DEF Wrapped

LEMMA WrappedTwice ==
    ASSUME NEW c \in Int, -CcountMod <= c, c < 2 * CcountMod,
           NEW d \in Int, -CcountMod < d, d < CcountMod,
           -CcountMod <= c + d, c + d < 2 * CcountMod
    PROVE  Wrapped(Wrapped(c) + d) = Wrapped(c + d)
  BY InterruptAssumption DEF Wrapped

LEMMA WrappedMeets ==
    ASSUME NEW c \in 0 .. CcountMod - 1, NEW d \in Int,
           1 - CcountMod < d, d < CcountMod, Wrapped(c + 1) = Wrapped(c + d)
    PROVE  d = 1
  BY InterruptAssumption DEF Wrapped

(* A device, or the watchdog, raises its interrupt.                         *)
LEMMA DeviceInterrupt_Inv ==
    ASSUME NEW i \in Device \cup {INUM_WDT}, IrqInv, DeviceInterrupt(i)
    PROVE  IrqInv'
  <1> USE InterruptAssumption DEF DeviceInterrupt, Raised, timerVars, svVars
  <1>1. InterruptTypeOK' BY DEF IrqInv, InterruptTypeOK, INUM, Request
  <1>2. HandlersAreInStep' BY DEF IrqInv, HandlersAreInStep, InterruptTypeOK
  <1>3. TriggerIsNext' BY DEF IrqInv, TriggerIsNext, Wrapped
  <1>4. DueTicksAreLatched' BY DEF IrqInv, DueTicksAreLatched, HandlersAreInStep
  <1>5. SwitchesAreKept' BY DEF IrqInv, SwitchesAreKept, HandlersAreInStep, Request
  <1> QED BY <1>1, <1>2, <1>3, <1>4, <1>5 DEF IrqInv

(* The vector passes on what is latched.                                    *)
LEMMA EnterInterrupt_Inv == ASSUME IrqInv, EnterInterrupt PROVE IrqInv'
  <1> USE InterruptAssumption DEF EnterInterrupt, timerVars, svVars
  <1>1. InterruptTypeOK' BY DEF IrqInv, InterruptTypeOK, INUM, Request
  <1>2. HandlersAreInStep' BY DEF IrqInv, HandlersAreInStep, InterruptTypeOK
  <1>3. TriggerIsNext' BY DEF IrqInv, TriggerIsNext, Wrapped
  <1>4. DueTicksAreLatched' BY DEF IrqInv, DueTicksAreLatched, HandlersAreInStep
  <1>5. SwitchesAreKept' BY DEF IrqInv, SwitchesAreKept, HandlersAreInStep, Request
  <1> QED BY <1>1, <1>2, <1>3, <1>4, <1>5 DEF IrqInv

(* The handler is called.                                                   *)
LEMMA CallHandler_Inv == ASSUME IrqInv, CallHandler PROVE IrqInv'
  <1> USE InterruptAssumption DEF CallHandler, timerVars, svVars
  <1>1. InterruptTypeOK' BY DEF IrqInv, InterruptTypeOK, INUM, Request
  <1>2. HandlersAreInStep' BY DEF IrqInv, HandlersAreInStep, InterruptTypeOK
  <1>3. TriggerIsNext' BY DEF IrqInv, TriggerIsNext, Wrapped
  <1>4. DueTicksAreLatched' BY DEF IrqInv, DueTicksAreLatched, HandlersAreInStep
  <1>5. SwitchesAreKept' BY DEF IrqInv, SwitchesAreKept, HandlersAreInStep, Request
  <1> QED BY <1>1, <1>2, <1>3, <1>4, <1>5 DEF IrqInv

(* A handler returns.                                                       *)
LEMMA DeviceHandler_Inv == ASSUME IrqInv, DeviceHandler PROVE IrqInv'
  <1> USE InterruptAssumption DEF DeviceHandler, HandlerReturns, timerVars, svVars
  <1>1. InterruptTypeOK' BY DEF IrqInv, InterruptTypeOK, INUM, Request
  <1>2. HandlersAreInStep' BY DEF IrqInv, HandlersAreInStep, InterruptTypeOK
  <1>3. TriggerIsNext' BY DEF IrqInv, TriggerIsNext, Wrapped
  <1>4. DueTicksAreLatched' BY DEF IrqInv, DueTicksAreLatched, HandlersAreInStep
  <1>5. SwitchesAreKept' BY DEF IrqInv, SwitchesAreKept, HandlersAreInStep, Request
  <1> QED BY <1>1, <1>2, <1>3, <1>4, <1>5 DEF IrqInv

(* Nothing is left to handle.                                               *)
LEMMA ExitInterrupt_Inv == ASSUME IrqInv, ExitInterrupt PROVE IrqInv'
  <1> USE InterruptAssumption DEF ExitInterrupt, timerVars, svVars
  <1>1. InterruptTypeOK' BY DEF IrqInv, InterruptTypeOK, INUM, Request
  <1>2. HandlersAreInStep' BY DEF IrqInv, HandlersAreInStep, InterruptTypeOK
  <1>3. TriggerIsNext' BY DEF IrqInv, TriggerIsNext, Wrapped
  <1>4. DueTicksAreLatched' BY DEF IrqInv, DueTicksAreLatched, HandlersAreInStep
  <1>5. SwitchesAreKept' BY DEF IrqInv, SwitchesAreKept, HandlersAreInStep, Request
  <1> QED BY <1>1, <1>2, <1>3, <1>4, <1>5 DEF IrqInv

(* PendSV notes a request.                                                  *)
LEMMA PendSV_Inv == ASSUME NEW req \in Request, IrqInv, PendSV(req) PROVE IrqInv'
  <1> USE InterruptAssumption DEF PendSV, timerVars, svVars
  <1>1. InterruptTypeOK' BY DEF IrqInv, InterruptTypeOK, INUM, Request
  <1>2. HandlersAreInStep' BY DEF IrqInv, HandlersAreInStep, InterruptTypeOK
  <1>3. TriggerIsNext' BY DEF IrqInv, TriggerIsNext, Wrapped
  <1>4. DueTicksAreLatched' BY DEF IrqInv, DueTicksAreLatched, HandlersAreInStep
  <1>5. SwitchesAreKept' BY DEF IrqInv, SwitchesAreKept, HandlersAreInStep, Request
  <1> QED BY <1>1, <1>2, <1>3, <1>4, <1>5 DEF IrqInv

(* PendSV raises the software interrupt.                                    *)
LEMMA PendSV_raise_Inv ==
    ASSUME NEW req \in Request, IrqInv, PendSV_raise(req)
    PROVE  IrqInv'
  <1> USE InterruptAssumption DEF PendSV_raise, Raised, timerVars, svVars
  <1>1. InterruptTypeOK' BY DEF IrqInv, InterruptTypeOK, INUM, Request
  <1>2. HandlersAreInStep' BY DEF IrqInv, HandlersAreInStep, InterruptTypeOK
  <1>3. TriggerIsNext' BY DEF IrqInv, TriggerIsNext, Wrapped
  <1>4. DueTicksAreLatched' BY DEF IrqInv, DueTicksAreLatched, HandlersAreInStep
  <1>5. SwitchesAreKept' BY DEF IrqInv, SwitchesAreKept, HandlersAreInStep, Request
  <1> QED BY <1>1, <1>2, <1>3, <1>4, <1>5 DEF IrqInv

(* SV_ISR finds out what was asked for.                                     *)
LEMMA SV_ISR_begin_Inv == ASSUME IrqInv, SV_ISR_begin PROVE IrqInv'
  <1> USE InterruptAssumption DEF SV_ISR_begin, timerVars, svVars
  <1>1. InterruptTypeOK' BY DEF IrqInv, InterruptTypeOK, INUM, Request
  <1>2. HandlersAreInStep' BY DEF IrqInv, HandlersAreInStep, InterruptTypeOK
  <1>3. TriggerIsNext' BY DEF IrqInv, TriggerIsNext, Wrapped
  <1>4. DueTicksAreLatched' BY DEF IrqInv, DueTicksAreLatched, HandlersAreInStep
  <1>5. SwitchesAreKept' BY DEF IrqInv, SwitchesAreKept, HandlersAreInStep, Request
  <1> QED BY <1>1, <1>2, <1>3, <1>4, <1>5 DEF IrqInv

(* The MAC layer is called.                                                 *)
LEMMA MacIsrSigPostDefHdl_Inv == ASSUME IrqInv, MacIsrSigPostDefHdl PROVE IrqInv'
  <1> USE InterruptAssumption DEF MacIsrSigPostDefHdl, timerVars, svVars
  <1>1. InterruptTypeOK' BY DEF IrqInv, InterruptTypeOK, INUM, Request
  <1>2. HandlersAreInStep' BY DEF IrqInv, HandlersAreInStep, InterruptTypeOK
  <1>3. TriggerIsNext' BY DEF IrqInv, TriggerIsNext, Wrapped
  <1>4. DueTicksAreLatched' BY DEF IrqInv, DueTicksAreLatched, HandlersAreInStep
  <1>5. SwitchesAreKept' BY DEF IrqInv, SwitchesAreKept, HandlersAreInStep, Request
  <1> QED BY <1>1, <1>2, <1>3, <1>4, <1>5 DEF IrqInv

(* SV_ISR switches contexts.                                                *)
LEMMA SV_ISR_switch_Inv == ASSUME IrqInv, SV_ISR_switch PROVE IrqInv'
  <1> USE InterruptAssumption DEF SV_ISR_switch, HandlerReturns, SwitchIsDue, timerVars, svVars
  <1>1. InterruptTypeOK' BY DEF IrqInv, InterruptTypeOK, INUM, Request
  <1>2. HandlersAreInStep' BY DEF IrqInv, HandlersAreInStep, InterruptTypeOK
  <1>3. TriggerIsNext' BY DEF IrqInv, TriggerIsNext, Wrapped
  <1>4. DueTicksAreLatched' BY DEF IrqInv, DueTicksAreLatched, HandlersAreInStep
  <1>5. SwitchesAreKept' BY DEF IrqInv, SwitchesAreKept, HandlersAreInStep, Request
  <1> QED BY <1>1, <1>2, <1>3, <1>4, <1>5 DEF IrqInv

(* _xt_isr_handler picks an interrupt and clears it; it stays in intset.    *)
LEMMA _xt_isr_handler_Inv == ASSUME IrqInv, _xt_isr_handler PROVE IrqInv'
  <1> USE InterruptAssumption DEF timerVars, svVars
  <1>1. /\ index' \in intset /\ intset \subseteq INUM /\ handling = "loop"
        /\ interrupt' = interrupt \ {index'} /\ handling' = "call"
        /\ UNCHANGED <<timerVars, svVars, intset, unserved>>
    <2>1. intset \subseteq INUM /\ intset # {}
          BY DEF IrqInv, InterruptTypeOK, _xt_isr_handler
    <2> QED BY <2>1, FirstIsOne DEF _xt_isr_handler
  <1>2. InterruptTypeOK' BY <1>1 DEF IrqInv, InterruptTypeOK
  <1>3. HandlersAreInStep' BY <1>1 DEF HandlersAreInStep
  <1>4. TriggerIsNext' BY <1>1 DEF IrqInv, TriggerIsNext, Wrapped
  <1>5. DueTicksAreLatched' BY <1>1 DEF IrqInv, DueTicksAreLatched
  <1>6. SwitchesAreKept' BY <1>1 DEF IrqInv, SwitchesAreKept
  <1> QED BY <1>2, <1>3, <1>4, <1>5, <1>6 DEF IrqInv

(* The numbers that every step of the timer starts from.                    *)
LEMMA TimerFacts ==
    ASSUME IrqInv
    PROVE  /\ ccount \in 0 .. CcountMod - 1 /\ ccompare0 \in 0 .. CcountMod - 1
           /\ lag \in 0 .. MaxLag
           /\ ccount_interval \in Nat \ {0} /\ MaxLag \in Nat /\ CcountMod \in Nat
           /\ ccount_interval < MaxLag /\ MaxLag + ccount_interval < CcountMod
           /\ INUM_TICK \in INUM /\ INUM_TICK # INUM_SOFT
  BY InterruptAssumption DEF IrqInv, InterruptTypeOK, TriggerIsNext, INUM

(* A cycle passes: the tick is latched when, and only when, it is due.      *)
LEMMA Clock_Inv == ASSUME IrqInv, Clock PROVE IrqInv'
  <1> DEFINE away == IF handling = "ticking" THEN 2 * ccount_interval ELSE ccount_interval
             due == IF Wrapped(ccount + 1) = ccompare0 THEN {INUM_TICK} ELSE {}
  <1>1. /\ lag < MaxLag /\ ccount' = Wrapped(ccount + 1) /\ lag' = lag + 1
        /\ interrupt' = interrupt \cup due /\ unserved' = unserved \cup due
        /\ UNCHANGED <<ccompare0, trigger_ccount, svVars, handling, intset, index>>
        BY DEF Clock, Cycle, Raised
  <1>2. /\ away \in Int /\ ccount_interval <= away /\ away <= 2 * ccount_interval
        /\ handling = "ticking" => away = 2 * ccount_interval
        /\ handling # "ticking" => away = ccount_interval
        /\ away' = away
        BY <1>1, TimerFacts
  <1>3. ccompare0 = Wrapped(ccount - lag + away) BY DEF IrqInv, TriggerIsNext
  <1>4. due = {INUM_TICK} <=> lag + 1 = away
    <2> HIDE DEF away
    <2>1. ASSUME lag + 1 = away PROVE Wrapped(ccount + 1) = ccompare0
      <3>1. ccount + 1 = ccount - lag + away BY <2>1, <1>2, TimerFacts
      <3> QED BY <3>1, <1>3
    <2>2. ASSUME Wrapped(ccount + 1) = ccompare0 PROVE lag + 1 = away
      <3>1. /\ away - lag \in Int /\ 1 - CcountMod < away - lag /\ away - lag < CcountMod
            /\ ccount - lag + away = ccount + (away - lag)
            BY <1>1, <1>2, TimerFacts
      <3>2. away - lag = 1 BY <2>2, <1>3, <3>1, WrappedMeets, TimerFacts
      <3> QED BY <3>2, <1>2, TimerFacts
    <2> QED BY <2>1, <2>2
  <1>5. due \in {{INUM_TICK}, {}} OBVIOUS
  <1> HIDE DEF away, due
  <1>6. InterruptTypeOK'
    <2>1. ccount' \in 0 .. CcountMod - 1 /\ lag' \in Int
          BY <1>1, WrappedType, TimerFacts
    <2> QED BY <1>1, <1>5, <2>1, TimerFacts DEF IrqInv, InterruptTypeOK, svVars
  <1>7. HandlersAreInStep' BY <1>1 DEF IrqInv, HandlersAreInStep
  <1>8. TriggerIsNext'
    <2>1. ccompare0 = Wrapped(ccount' - lag' + away)
      <3>1. Wrapped(Wrapped(ccount + 1) + (away - lag - 1)) = Wrapped(ccount + 1 + (away - lag - 1))
            BY <1>1, <1>2, WrappedTwice, TimerFacts
      <3>2. ccount' - lag' + away = Wrapped(ccount + 1) + (away - lag - 1)
            BY <1>1, <1>2, WrappedType, TimerFacts
      <3>3. ccount + 1 + (away - lag - 1) = ccount - lag + away BY <1>2, TimerFacts
      <3> QED BY <3>1, <3>2, <3>3, <1>3
    <2>2. away = IF handling' = "ticking" THEN 2 * ccount_interval ELSE ccount_interval
          BY <1>1 DEF away
    <2>3. lag' \in 0 .. MaxLag BY <1>1, TimerFacts
    <2>4. handling' \in {"ticking", "ticked"} =>
             trigger_ccount' = Wrapped(ccompare0' - ccount_interval)
          BY <1>1 DEF IrqInv, TriggerIsNext
    <2> QED BY <1>1, <2>1, <2>2, <2>3, <2>4 DEF TriggerIsNext
  <1>9. DueTicksAreLatched'
        BY <1>1, <1>2, <1>4, <1>5, TimerFacts
        DEF IrqInv, DueTicksAreLatched, HandlersAreInStep
  <1>10. SwitchesAreKept' BY <1>1 DEF IrqInv, SwitchesAreKept, svVars
  <1> QED BY <1>6, <1>7, <1>8, <1>9, <1>10 DEF IrqInv

(* The next trigger is written, and with it the latch is cleared.           *)
LEMMA __xt_timer_int_Inv == ASSUME IrqInv, __xt_timer_int PROVE IrqInv'
  <1>1. /\ handling = "tick" /\ handling' = "ticking" /\ trigger_ccount' = ccompare0
        /\ ccompare0' = Wrapped(ccompare0 + ccount_interval)
        /\ interrupt' = interrupt \ {INUM_TICK} /\ unserved' = unserved \ {INUM_TICK}
        /\ UNCHANGED <<ccount, lag, svVars, intset, index>>
        BY DEF __xt_timer_int, NextTrigger
  <1>2. /\ lag >= ccount_interval /\ index = INUM_TICK /\ INUM_TICK \in intset
        BY <1>1 DEF IrqInv, DueTicksAreLatched, HandlersAreInStep
  <1>3. ccompare0 = Wrapped(ccount - lag + ccount_interval)
        BY <1>1 DEF IrqInv, TriggerIsNext
  <1>4. ccompare0' = Wrapped(ccount - lag + 2 * ccount_interval)
        BY <1>1, <1>3, TimerFacts DEF Wrapped
  <1>5. ccompare0' \in 0 .. CcountMod - 1 BY <1>1, TimerFacts, WrappedType
  <1>6. InterruptTypeOK' BY <1>1, <1>5 DEF IrqInv, InterruptTypeOK, svVars
  <1>7. HandlersAreInStep' BY <1>1, <1>2 DEF HandlersAreInStep
  <1>8. TriggerIsNext'
    <2>1. trigger_ccount' = Wrapped(ccompare0' - ccount_interval)
          BY <1>1, TimerFacts DEF Wrapped
    <2> QED BY <1>1, <1>4, <2>1, TimerFacts DEF TriggerIsNext
  <1>9. DueTicksAreLatched' BY <1>1, <1>2 DEF DueTicksAreLatched
  <1>10. SwitchesAreKept' BY <1>1, TimerFacts DEF IrqInv, SwitchesAreKept, svVars
  <1> QED BY <1>6, <1>7, <1>8, <1>9, <1>10 DEF IrqInv

(* The tick is counted, which takes a cycle: a trigger that is met in that   *)
(* cycle is latched.                                                        *)
LEMMA TickIsCounted_Inv == ASSUME IrqInv, TickIsCounted PROVE IrqInv'
  <1> DEFINE due == IF Wrapped(ccount + 1) = ccompare0 THEN {INUM_TICK} ELSE {}
  <1>1. /\ handling = "ticking" /\ handling' = "ticked"
        /\ ccount' = Wrapped(ccount + 1) /\ lag' = lag + 1 - ccount_interval
        /\ interrupt' = interrupt \cup due /\ unserved' = unserved \cup due
        /\ UNCHANGED <<ccompare0, trigger_ccount, svVars, intset, index>>
        BY DEF TickIsCounted, Raised
  <1>2. /\ lag >= ccount_interval /\ index = INUM_TICK /\ INUM_TICK \in intset
        /\ INUM_TICK \in interrupt => lag >= 2 * ccount_interval
        /\ ccompare0 = Wrapped(ccount - lag + 2 * ccount_interval)
        /\ trigger_ccount = Wrapped(ccompare0 - ccount_interval)
        BY <1>1 DEF IrqInv, DueTicksAreLatched, HandlersAreInStep, TriggerIsNext
  <1>3. due = {INUM_TICK} <=> lag + 1 = 2 * ccount_interval
        BY <1>2, TimerFacts DEF Wrapped
  <1>4. due \in {{INUM_TICK}, {}} OBVIOUS
  <1> HIDE DEF due
  <1>5. lag' \in 0 .. MaxLag BY <1>1, <1>2, TimerFacts
  <1>6. ccompare0 = Wrapped(ccount' - lag' + ccount_interval)
        BY <1>1, <1>2, TimerFacts DEF Wrapped
  <1>7. InterruptTypeOK'
    <2>1. ccount' \in 0 .. CcountMod - 1 BY <1>1, WrappedType, TimerFacts
    <2> QED BY <1>1, <1>4, <1>5, <2>1, TimerFacts DEF IrqInv, InterruptTypeOK, svVars
  <1>8. HandlersAreInStep' BY <1>1, <1>2 DEF HandlersAreInStep
  <1>9. TriggerIsNext' BY <1>1, <1>2, <1>5, <1>6 DEF TriggerIsNext
  <1>10. DueTicksAreLatched'
         BY <1>1, <1>2, <1>3, <1>4, TimerFacts DEF DueTicksAreLatched
  <1>11. SwitchesAreKept' BY <1>1 DEF IrqInv, SwitchesAreKept, svVars
  <1> QED BY <1>7, <1>8, <1>9, <1>10, <1>11 DEF IrqInv

(* The loop of __xt_timer_int goes on when the new trigger was past before   *)
(* it was written, and ends only when it lies ahead or is latched.          *)
LEMMA __xt_timer_int_loop_Inv == ASSUME IrqInv, __xt_timer_int_loop PROVE IrqInv'
  <1>1. /\ handling = "ticked" /\ trigger_ccount' = 0
        /\ UNCHANGED <<ccount, ccompare0, lag, svVars, interrupt, unserved>>
        BY DEF __xt_timer_int_loop
  <1>2. /\ index = INUM_TICK /\ INUM_TICK \in intset
        /\ INUM_TICK \in interrupt => lag >= ccount_interval
        /\ lag = ccount_interval => INUM_TICK \in interrupt
        /\ ccompare0 = Wrapped(ccount - lag + ccount_interval)
        /\ trigger_ccount = Wrapped(ccompare0 - ccount_interval)
        BY <1>1 DEF IrqInv, DueTicksAreLatched, HandlersAreInStep, TriggerIsNext
  <1>3. Wrapped(ccount - trigger_ccount) = lag
        BY <1>2, TimerFacts DEF Wrapped
  <1>4. \/ /\ lag > ccount_interval
           /\ handling' = "tick" /\ intset' = intset /\ index' = index
        \/ /\ ~(lag > ccount_interval)
           /\ handling' = "loop" /\ intset' = intset \ {INUM_TICK} /\ index' = 0
        BY <1>2, <1>3 DEF __xt_timer_int_loop, TriggerIsPast, HandlerReturns
  <1>5. InterruptTypeOK' BY <1>1, <1>4, TimerFacts DEF IrqInv, InterruptTypeOK, svVars
  <1>6. HandlersAreInStep' BY <1>2, <1>4 DEF HandlersAreInStep
  <1>7. TriggerIsNext' BY <1>1, <1>2, <1>4, TimerFacts DEF TriggerIsNext
  <1>8. DueTicksAreLatched' BY <1>1, <1>2, <1>4, TimerFacts DEF DueTicksAreLatched
  <1>9. SwitchesAreKept' BY <1>1, <1>4, TimerFacts DEF IrqInv, SwitchesAreKept, svVars
  <1> QED BY <1>5, <1>6, <1>7, <1>8, <1>9 DEF IrqInv
-----------------------------------------------------------------------------
(* Before the first interrupt the invariant holds.                          *)
LEMMA InitIrqInv == InterruptInit => IrqInv
  <1> SUFFICES ASSUME InterruptInit PROVE IrqInv
      OBVIOUS
  <1> USE InterruptAssumption DEF InterruptInit
  <1>1. ccompare0 \in 0 .. CcountMod - 1 BY WrappedType
  <1>2. InterruptTypeOK
    <2>1. ccount \in 0 .. CcountMod - 1 /\ trigger_ccount \in 0 .. CcountMod - 1 /\ lag \in Int
          OBVIOUS
    <2> QED BY <1>1, <2>1 DEF InterruptTypeOK
  <1>3. HandlersAreInStep BY DEF HandlersAreInStep
  <1>4. TriggerIsNext BY DEF TriggerIsNext
  <1>5. DueTicksAreLatched BY DEF DueTicksAreLatched
  <1>6. SwitchesAreKept BY DEF SwitchesAreKept
  <1> QED BY <1>2, <1>3, <1>4, <1>5, <1>6 DEF IrqInv

(* Every step preserves it.                                                 *)
LEMMA NextIrqInv == ASSUME IrqInv, [InterruptNext]_irqVars PROVE IrqInv'
  <1>1. CASE Clock BY <1>1, Clock_Inv
  <1>2. CASE \E i \in Device \cup {INUM_WDT} : DeviceInterrupt(i)
        BY <1>2, DeviceInterrupt_Inv
  <1>3. CASE \E req \in Request : PendSV(req) \/ PendSV_raise(req)
        BY <1>3, PendSV_Inv, PendSV_raise_Inv
  <1>4. CASE HandlerNext
        BY <1>4, EnterInterrupt_Inv, _xt_isr_handler_Inv, CallHandler_Inv,
           DeviceHandler_Inv, ExitInterrupt_Inv, __xt_timer_int_Inv, TickIsCounted_Inv,
           __xt_timer_int_loop_Inv, SV_ISR_begin_Inv, MacIsrSigPostDefHdl_Inv,
           SV_ISR_switch_Inv
        DEF HandlerNext
  <1>5. CASE UNCHANGED irqVars
        BY <1>5 DEF irqVars, timerVars, svVars, IrqInv, InterruptTypeOK, HandlersAreInStep,
           TriggerIsNext, DueTicksAreLatched, SwitchesAreKept, Wrapped
  <1> QED BY <1>1, <1>2, <1>3, <1>4, <1>5 DEF InterruptNext

LEMMA IrqInvHolds == InterruptSpec => []IrqInv
  BY InitIrqInv, NextIrqInv, PTL DEF InterruptSpec

(* No tick is counted early or twice, and none is forgotten: a tick that is *)
(* due is latched or being handled, for every period and every delay of the *)
(* handler that is less than a round of the counter.                        *)
THEOREM TicksStayInTime == InterruptSpec => []TicksKeepTime
  <1>1. IrqInv => TicksKeepTime
        BY TimerFacts DEF IrqInv, TriggerIsNext, DueTicksAreLatched, HandlersAreInStep,
           TicksKeepTime
  <1> QED BY <1>1, IrqInvHolds, PTL

(* A request for a context switch is not lost between PendSV, the dispatch  *)
(* of interrupts and SV_ISR.                                                *)
THEOREM SwitchesStayKept == InterruptSpec => []SwitchesAreKept
  <1>1. IrqInv => SwitchesAreKept BY DEF IrqInv
  <1> QED BY <1>1, IrqInvHolds, PTL

(* Every interrupt that is raised gets its handler, also one raised while   *)
(* handlers run.                                                            *)
THEOREM InterruptsStayServed == InterruptSpec => []InterruptsAreServed
  <1>1. InterruptInit => InterruptsAreServed BY DEF InterruptInit, InterruptsAreServed
  <1>2. ASSUME IrqInv, InterruptsAreServed, [InterruptNext]_irqVars
        PROVE  InterruptsAreServed'
    <2> USE <1>2 DEF InterruptsAreServed, timerVars, svVars, Raised, HandlerReturns
    <2>1. CASE Clock BY <2>1 DEF Clock, Cycle
    <2>2. CASE \E i \in Device \cup {INUM_WDT} : DeviceInterrupt(i)
          BY <2>2 DEF DeviceInterrupt
    <2>3. CASE \E req \in Request : PendSV(req) \/ PendSV_raise(req)
          BY <2>3 DEF PendSV, PendSV_raise
    <2>4. CASE EnterInterrupt BY <2>4 DEF EnterInterrupt
    <2>5. CASE _xt_isr_handler BY <2>5 DEF _xt_isr_handler
    <2>6. CASE CallHandler BY <2>6 DEF CallHandler
    <2>7. CASE DeviceHandler BY <2>7 DEF DeviceHandler
    <2>8. CASE ExitInterrupt BY <2>8 DEF ExitInterrupt
    <2>9. CASE __xt_timer_int BY <2>9 DEF __xt_timer_int
    <2>10. CASE TickIsCounted BY <2>10 DEF TickIsCounted
    <2>11. CASE __xt_timer_int_loop BY <2>11 DEF __xt_timer_int_loop
    <2>12. CASE SV_ISR_begin \/ MacIsrSigPostDefHdl \/ SV_ISR_switch
           BY <2>12 DEF SV_ISR_begin, MacIsrSigPostDefHdl, SV_ISR_switch
    <2>13. CASE UNCHANGED irqVars BY <2>13 DEF irqVars
    <2> QED BY <2>1, <2>2, <2>3, <2>4, <2>5, <2>6, <2>7, <2>8, <2>9, <2>10, <2>11,
               <2>12,
               <2>13 DEF InterruptNext, HandlerNext
  <1> QED BY <1>1, <1>2, IrqInvHolds, PTL DEF InterruptSpec
===============================================================================
