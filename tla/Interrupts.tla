------------------------------ MODULE Interrupts ------------------------------
(***************************************************************************)
(* Interrupt dispatch and the tick timer (core/interrupt.c), and the        *)
(* software interrupt for context switches and MAC layer requests           *)
(* (os/port.c).                                                             *)
(*                                                                         *)
(* Level-one handlers do not nest.  Between any two of their steps the      *)
(* cycle counter may advance, devices may raise interrupts, and the NMI of  *)
(* the MAC layer may call PendSV.  Interrupts that have come are latched in *)
(* the register interrupt until a handler or a write of ccompare0 clears    *)
(* them.                                                                    *)
(***************************************************************************)
EXTENDS Integers

CONSTANTS
    Device,         \* the numbers of interrupts with a handler of their own
    INUM_TICK, INUM_SOFT, INUM_WDT,
    CcountMod,      \* ccount and ccompare0 are numbers modulo 2^32
    ccount_interval,
    MaxLag          \* bound: how late a tick may be handled, in cycles

INUM == Device \cup {INUM_TICK, INUM_SOFT, INUM_WDT}

ASSUME InterruptAssumption ==
    /\ INUM \subseteq Nat
    /\ INUM_TICK # INUM_SOFT /\ INUM_TICK # INUM_WDT /\ INUM_SOFT # INUM_WDT
    /\ Device \cap {INUM_TICK, INUM_SOFT, INUM_WDT} = {}
    /\ ccount_interval \in Nat \ {0} /\ MaxLag \in Nat /\ CcountMod \in Nat
    /\ ccount_interval < MaxLag
    /\ MaxLag + ccount_interval < CcountMod

VARIABLES
    ccount, ccompare0, interrupt,    \* registers; interrupt is the latched set
    handling,       \* where the level-one handler is, or "no"
    intset, index,  \* the locals of _xt_isr_handler
    trigger_ccount, \* the local of __xt_timer_int
    noted,          \* PENDING_SOFT_SV and PENDING_MACLAYER_SV, the set of those that are set
    xHigherPriorityTaskWoken,        \* the local of SV_ISR
    raising,        \* requests that PendSV has noted and not raised yet
    lag,            \* history: cycles since the last tick counted was due
    unserved,       \* history: raised since its handler began last
    owed            \* history: requests made since they were last acted on

timerVars == <<ccount, ccompare0, trigger_ccount, lag>>
svVars == <<noted, xHigherPriorityTaskWoken, raising, owed>>
irqVars == <<timerVars, svVars, interrupt, handling, intset, index, unserved>>

Request == {"soft", "mac"}

(* Arithmetic on the cycle counter, for numbers less than one round away.   *)
Wrapped(c) ==
    IF c >= CcountMod THEN c - CcountMod ELSE IF c < 0 THEN c + CcountMod ELSE c

(* xPortStartScheduler has attached the handlers, and __xt_tick_timer_init  *)
(* has set the first trigger.                                               *)
InterruptInit ==
    /\ ccount \in 0 .. CcountMod - 1
    /\ ccompare0 = Wrapped(ccount + ccount_interval)
    /\ trigger_ccount = 0
    /\ lag = 0
    /\ interrupt = {} /\ unserved = {}
    /\ handling = "no" /\ intset = {} /\ index = 0
    /\ xHigherPriorityTaskWoken = FALSE
    /\ noted = {} /\ raising = {} /\ owed = {}
-----------------------------------------------------------------------------
Raised(s) == interrupt' = interrupt \cup s /\ unserved' = unserved \cup s

(* A cycle; the tick interrupt is latched when the counter meets ccompare0. *)
Cycle ==
    /\ lag < MaxLag
    /\ ccount' = Wrapped(ccount + 1)
    /\ lag' = lag + 1
    /\ Raised(IF Wrapped(ccount + 1) = ccompare0 THEN {INUM_TICK} ELSE {})

Clock ==
    /\ Cycle
    /\ UNCHANGED <<ccompare0, trigger_ccount, svVars, handling, intset, index>>

DeviceInterrupt(i) ==
    /\ Raised({i})
    /\ UNCHANGED <<timerVars, svVars, handling, intset, index>>

(* PendSV notes a request, then raises the software interrupt.  Tasks and   *)
(* device handlers ask for a switch, the NMI asks for the MAC layer.        *)
PendSV(req) ==
    /\ req \notin raising
    /\ req = "soft" => handling \in {"no", "device"}
    /\ raising' = raising \cup {req}
    /\ owed' = owed \cup {req}
    /\ noted' = noted \cup {req}
    /\ UNCHANGED <<timerVars, xHigherPriorityTaskWoken, interrupt, unserved, handling,
                   intset, index>>

PendSV_raise(req) ==
    /\ req \in raising
    /\ raising' = raising \ {req}
    /\ Raised({INUM_SOFT})
    /\ UNCHANGED <<timerVars, noted, xHigherPriorityTaskWoken, owed, handling, intset, index>>
-----------------------------------------------------------------------------
(* The interrupt vector calls _xt_isr_handler with what is latched.         *)
EnterInterrupt ==
    /\ handling = "no" /\ interrupt # {}
    /\ intset' = interrupt
    /\ handling' = "loop"
    /\ UNCHANGED <<timerVars, svVars, interrupt, index, unserved>>

(* The watchdog first, then the lowest number.                              *)
First(s) == IF INUM_WDT \in s THEN INUM_WDT ELSE CHOOSE i \in s : \A j \in s : i <= j

(* _xt_clear_ints comes before the handler, so that what is raised while it *)
(* runs is latched again.                                                   *)
_xt_isr_handler ==
    /\ handling = "loop" /\ intset # {}
    /\ index' = First(intset)
    /\ interrupt' = interrupt \ {First(intset)}
    /\ handling' = "call"
    /\ UNCHANGED <<timerVars, svVars, intset, unserved>>

CallHandler ==
    /\ handling = "call"
    /\ unserved' = unserved \ {index}
    /\ handling' = IF index = INUM_TICK THEN "tick"
                   ELSE IF index = INUM_SOFT THEN "sv" ELSE "device"
    /\ UNCHANGED <<timerVars, svVars, interrupt, intset, index>>

HandlerReturns ==
    /\ intset' = intset \ {index}
    /\ index' = 0
    /\ handling' = "loop"

ClearedAfterHandler ==    \* mutant: the interrupt is cleared when its handler has run
    /\ handling = "device"
    /\ HandlerReturns
    /\ interrupt' = interrupt \ {index}
    /\ UNCHANGED <<timerVars, svVars, unserved>>

DeviceHandler ==
    /\ handling = "device"
    /\ HandlerReturns
    /\ UNCHANGED <<timerVars, svVars, interrupt, unserved>>

ExitInterrupt ==
    /\ handling = "loop" /\ intset = {}
    /\ handling' = "no"
    /\ UNCHANGED <<timerVars, svVars, interrupt, intset, index, unserved>>
-----------------------------------------------------------------------------
(* __xt_timer_int: the next trigger is set from the last one, whatever the  *)
(* delay.  The write clears a tick interrupt that is latched.               *)
NextTrigger(trigger) == Wrapped(trigger + ccount_interval)

__xt_timer_int ==
    /\ handling = "tick"
    /\ trigger_ccount' = ccompare0
    /\ ccompare0' = NextTrigger(ccompare0)
    /\ interrupt' = interrupt \ {INUM_TICK}
    /\ unserved' = unserved \ {INUM_TICK}
    /\ handling' = "ticking"
    /\ UNCHANGED <<ccount, lag, svVars, intset, index>>

(* xPortSysTickHandle counts the tick and may switch contexts; it takes at  *)
(* least a cycle.                                                           *)
TickIsCounted ==
    /\ handling = "ticking"
    /\ ccount' = Wrapped(ccount + 1)
    /\ lag' = lag + 1 - ccount_interval
    /\ Raised(IF Wrapped(ccount + 1) = ccompare0 THEN {INUM_TICK} ELSE {})
    /\ handling' = "ticked"
    /\ UNCHANGED <<ccompare0, trigger_ccount, svVars, intset, index>>

TestedTooLate(now) == Wrapped(now - trigger_ccount) > ccount_interval + 1    \* mutant
TriggerIsPast(now) == Wrapped(now - trigger_ccount) > ccount_interval

__xt_timer_int_loop ==
    /\ handling = "ticked"
    /\ IF TriggerIsPast(ccount)
       THEN handling' = "tick" /\ UNCHANGED <<intset, index>>
       ELSE HandlerReturns
    /\ trigger_ccount' = 0
    /\ UNCHANGED <<ccount, ccompare0, lag, svVars, interrupt, unserved>>
-----------------------------------------------------------------------------
(* SV_ISR: the MAC layer's handler, if it was asked for, then the switch.   *)
SV_ISR_begin ==
    /\ handling = "sv"
    /\ xHigherPriorityTaskWoken' = FALSE
    /\ handling' = IF "mac" \in noted THEN "mac" ELSE "switch"
    /\ owed' = IF "mac" \in noted THEN owed \ {"mac"} ELSE owed
    /\ UNCHANGED <<timerVars, noted, raising, interrupt, intset, index, unserved>>

MacIsrSigPostDefHdl ==
    /\ handling = "mac"
    /\ xHigherPriorityTaskWoken' \in BOOLEAN
    /\ noted' = noted \ {"mac"}
    /\ handling' = "switch"
    /\ UNCHANGED <<timerVars, raising, owed, interrupt, intset, index, unserved>>

SwitchOnlyIfWoken == xHigherPriorityTaskWoken    \* mutant
SwitchIsDue == xHigherPriorityTaskWoken \/ "soft" \in noted

SV_ISR_switch ==
    /\ handling = "switch"
    /\ IF SwitchIsDue
       THEN owed' = owed \ {"soft"} /\ noted' = noted \ {"soft"}
       ELSE UNCHANGED <<owed, noted>>
    /\ HandlerReturns
    /\ xHigherPriorityTaskWoken' = FALSE
    /\ UNCHANGED <<timerVars, raising, interrupt, unserved>>
-----------------------------------------------------------------------------
HandlerNext ==
    \/ EnterInterrupt
    \/ _xt_isr_handler
    \/ CallHandler
    \/ DeviceHandler
    \/ ExitInterrupt
    \/ __xt_timer_int
    \/ TickIsCounted
    \/ __xt_timer_int_loop
    \/ SV_ISR_begin
    \/ MacIsrSigPostDefHdl
    \/ SV_ISR_switch

InterruptNext ==
    \/ Clock
    \/ \E i \in Device \cup {INUM_WDT} : DeviceInterrupt(i)
    \/ \E req \in Request : PendSV(req) \/ PendSV_raise(req)
    \/ HandlerNext

InterruptSpec == InterruptInit /\ [][InterruptNext]_irqVars
-----------------------------------------------------------------------------
InterruptTypeOK ==
    /\ ccount \in 0 .. CcountMod - 1 /\ ccompare0 \in 0 .. CcountMod - 1
    /\ trigger_ccount \in 0 .. CcountMod - 1 /\ lag \in Int
    /\ interrupt \subseteq INUM /\ intset \subseteq INUM /\ unserved \subseteq INUM
    /\ handling \in {"no", "loop", "call", "device", "tick", "ticking", "ticked",
                     "sv", "mac", "switch"}
    /\ index \in INUM \cup {0}
    /\ xHigherPriorityTaskWoken \in BOOLEAN
    /\ noted \subseteq Request /\ raising \subseteq Request /\ owed \subseteq Request

(* An interrupt that is raised, at whatever moment, still gets its handler: *)
(* _xt_isr_handler clears it before the handler runs and not after.         *)
InterruptsAreServed ==
    \A i \in unserved : i \in interrupt \/ (handling = "call" /\ index = i)

(* A request for a context switch stays noted, and the software interrupt   *)
(* on its way, until SV_ISR has switched.                                   *)
SwitchesAreKept ==
    "soft" \in owed =>
        /\ "soft" \in noted
        /\ "soft" \in raising \/ INUM_SOFT \in interrupt \cup intset

(* Ticks keep time with the cycle counter: __xt_timer_int counts none early *)
(* and none twice, and when none is pending or being handled the next one   *)
(* is less than a period away, however late handlers ran.                   *)
TicksKeepTime ==
    /\ lag >= 0
    /\ INUM_TICK \notin interrupt \cup intset => lag < ccount_interval

(* Which interrupt is being handled; its bit stays in intset meanwhile.     *)
HandlersAreInStep ==
    /\ handling = "no" => intset = {}
    /\ handling = "call" => index \in intset
    /\ handling = "device" => index \notin {INUM_TICK, INUM_SOFT}
    /\ handling \in {"tick", "ticking", "ticked"} => index = INUM_TICK /\ INUM_TICK \in intset
    /\ handling \in {"sv", "mac", "switch"} => index = INUM_SOFT /\ INUM_SOFT \in intset

(* The next trigger is one period after the last tick counted, two while    *)
(* __xt_timer_int counts one.                                               *)
TriggerIsNext ==
    /\ lag \in 0 .. MaxLag
    /\ ccompare0 = Wrapped(ccount - lag + IF handling = "ticking" THEN 2 * ccount_interval
                                          ELSE ccount_interval)
    /\ handling \in {"ticking", "ticked"} =>
           trigger_ccount = Wrapped(ccompare0 - ccount_interval)

(* When a tick is due it is latched or being handled, and only then; while  *)
(* one is counted, a trigger that the counter passed before it was written  *)
(* is latched nowhere, and __xt_timer_int_loop must find it.                *)
DueTicksAreLatched ==
    IF handling = "ticking"
    THEN /\ lag >= ccount_interval
         /\ INUM_TICK \in interrupt => lag >= 2 * ccount_interval
    ELSE IF handling = "ticked"
    THEN /\ INUM_TICK \in interrupt => lag >= ccount_interval
         /\ lag = ccount_interval => INUM_TICK \in interrupt
    ELSE INUM_TICK \in interrupt \cup intset <=> lag >= ccount_interval

(* Together with SwitchesAreKept they are preserved by every step.          *)
IrqInv ==
    /\ InterruptTypeOK
    /\ HandlersAreInStep
    /\ TriggerIsNext
    /\ DueTicksAreLatched
    /\ SwitchesAreKept

(* MacIsrSigPostDefHdl "is called after a Blob SV requests a soft interrupt *)
(* by calling PendSV(SVC_MACLayer)": a request stays noted until then.      *)
MacRequestsAreKept == "mac" \in owed => "mac" \in noted
===============================================================================
