----------------------------- MODULE Interrupts -----------------------------
(***************************************************************************)
(* Hardware interrupts of the kernel: the two chained 8259 controllers     *)
(* (external hardware, modelled from how pic.rs programs them), the        *)
(* handlers the IDT installs for the IRQ lines (interrupts.rs), the timer  *)
(* driver (pit.rs) and the thread that boots the kernel (kmain), which a   *)
(* handler interrupts at any instruction.                                  *)
(*                                                                         *)
(* One CPU: while a handler runs, the interrupted thread does not, and the *)
(* interrupt gate keeps the interrupt flag clear until the handler's iret. *)
(* The locks are spin locks, so a handler that needs a lock the thread it  *)
(* interrupted holds never gets it.                                        *)
(***************************************************************************)
EXTENDS Naturals, FiniteSets, FiniteSetsExt

CONSTANTS
    LinesPerPic,      \* lines of one controller (8 in the hardware)
    Cascade,          \* the master's line the slave is wired to (2 in the hardware)
    BiosMask,         \* [Pics -> SUBSET Lines]: the masks found by init_and_remap
    Devices,          \* IRQs that devices other than the timer may raise
    Glitches,         \* the IRQs among them whose line may drop before it is acknowledged
    Builds,           \* the cargo profiles considered, a subset of {"dev", "release"}
    DevicesWhileBooting, \* TRUE: devices raise IRQs before kmain has started the timer
    SleepTimes,       \* arguments sleep() is called with
    MaxPulses,        \* bound on the timer's pulses
    MaxRaises         \* bound on the other devices' interrupts

Pics == {"master", "slave"}
Lines == 0 .. LinesPerPic - 1
Irqs == 0 .. 2 * LinesPerPic - 1
PitIrq == 0
SpuriousLine == LinesPerPic - 1

ASSUME LinesAssumption ==
    /\ LinesPerPic \in Nat /\ Cascade \in Lines /\ 0 < Cascade /\ Cascade < SpuriousLine
    /\ BiosMask \in [Pics -> SUBSET Lines]
    /\ Devices \subseteq Irqs \ {PitIrq, Cascade}
    /\ Glitches \subseteq Devices
    /\ Builds \subseteq {"dev", "release"} /\ DevicesWhileBooting \in BOOLEAN
    /\ SleepTimes \subseteq Nat /\ MaxPulses \in Nat /\ MaxRaises \in Nat

VARIABLES
    build,            \* the profile the kernel was built with
    irr, isr, imr,    \* request, in-service and mask registers of each controller
    glitch,           \* [Pics -> BOOLEAN]: a request was withdrawn after INT was raised
    ifFlag,           \* RFLAGS.IF
    handler,          \* the running IRQ handler: its program counter and its IRQ
    main,             \* where kmain (or its callee) is
    pics,             \* CHAINED_PICS: "free", or who holds the mutex
    lazy,             \* state of the lazy_static LISTENERS: "unset", "running" or "done"
    rwlock,           \* the RwLock in LISTENERS: "free", "read" or "written"
    listeners,        \* [Irqs -> number of times tick is registered]
    counter,          \* COUNTER
    pit,              \* channel 0: as the "bios" left it, "stopped", "loaded"
    wake,             \* sleep's wake_time
    panicked,
    pulses,           \* history: timer pulses the controller latched once the timer is loaded
    raised,           \* bound: interrupts other devices raised
    dispatched        \* history: the IRQs whose handler reached dispatch_irq

vars == <<build, irr, isr, imr, glitch, ifFlag, handler, main, pics, lazy, rwlock,
          listeners, counter, pit, wake, panicked, pulses, raised, dispatched>>
controllers == <<irr, isr, imr, glitch>>
locks == <<pics, lazy, rwlock>>
history == <<pulses, raised, dispatched>>
timer == <<counter, pit, wake>>
machine == <<build, panicked>>

NoHandler == [pc |-> "none", irq |-> PitIrq]
Idle == handler.pc = "none"
Running == ~panicked
\* The interrupted thread moves only when no handler does.
MainAt(label) == Running /\ Idle /\ main = label
HandlerAt(label) == Running /\ handler.pc = label

----------------------------------------------------------------------------
(* ChainedPics::destination and the bit is_spurious looks at.               *)

destination(irq) == IF irq < LinesPerPic THEN "master" ELSE "slave"

LocalIrqIsGlobal(irq) == irq

LocalIrq(irq) == irq % LinesPerPic

\* `1 << irq` on a u8 with the IRQ's global number: the dev build panics when the
\* shift is too wide, the release build reduces it modulo the width, which is the
\* local line.
ShiftPanics(irq) == build = "dev" /\ irq >= LinesPerPic

\* Mutants: no interrupt is spurious; the bit of the global number, which a slave does not have.
IsSpuriousNever(irq) == FALSE
IsSpuriousGlobalBit(irq) == irq \notin isr[destination(irq)]

is_spurious(irq) == LocalIrq(irq) \notin isr[destination(irq)]

\* A non-specific end of interrupt clears the in-service bit of highest priority,
\* which is the lowest line (external: the 8259's reaction to command 0x20).
EndOfInterrupt(p) ==
    [isr EXCEPT ![p] = IF @ = {} THEN {} ELSE @ \ {Min(@)}]

\* What of a controller's requests may interrupt: unmasked, and of higher priority
\* than everything in service (external).
Ready(p, requests) ==
    {l \in requests \ imr[p] : \A s \in isr[p] : l < s}

SlaveReady == Ready("slave", irr["slave"])
SlaveInt == SlaveReady # {} \/ glitch["slave"]
MasterReady == Ready("master", irr["master"] \cup (IF SlaveInt THEN {Cascade} ELSE {}))

Init ==
    /\ build \in Builds
    /\ irr = [p \in Pics |-> {}] /\ isr = [p \in Pics |-> {}] /\ imr = BiosMask
    /\ glitch = [p \in Pics |-> FALSE]
    /\ ifFlag = FALSE
    /\ handler = NoHandler
    /\ main = "init"
    /\ pics = "free" /\ lazy = "unset" /\ rwlock = "free"
    /\ listeners = [i \in Irqs |-> 0]
    /\ counter = 0 /\ pit = "bios" /\ wake = 0
    /\ panicked = FALSE
    /\ pulses = 0 /\ raised = 0 /\ dispatched = {}

----------------------------------------------------------------------------
(* Hardware (external).                                                     *)

Asleep == main \in {"sleep", "checked", "hlt"}
Booted == Asleep \/ main \in {"run", "halted"}

\* The timer raises line 0, while it is not reprogrammed. A request that is
\* already pending absorbs the pulse. MaxPulses bounds the pulses a running
\* thread sees; a thread in hlt gets another one, up to twice as many, which is
\* more than any sleep within the bound takes.
PitPulse ==
    /\ pit # "stopped" /\ (pit = "loaded" \/ DevicesWhileBooting)
    /\ pulses < MaxPulses \/ (main = "hlt" /\ pulses < 2 * MaxPulses)
    /\ PitIrq \notin irr["master"]
    /\ irr' = [irr EXCEPT !["master"] = @ \cup {PitIrq}]
    /\ pulses' = IF pit = "loaded" THEN pulses + 1 ELSE pulses
    /\ UNCHANGED <<isr, imr, glitch, ifFlag, handler, main, locks, listeners, timer,
                   machine, raised, dispatched>>

RaiseDevice(irq) ==
    /\ Booted \/ DevicesWhileBooting
    /\ raised < MaxRaises
    /\ LocalIrq(irq) \notin irr[destination(irq)]
    /\ irr' = [irr EXCEPT ![destination(irq)] = @ \cup {LocalIrq(irq)}]
    /\ raised' = raised + 1
    /\ UNCHANGED <<isr, imr, glitch, ifFlag, handler, main, locks, listeners, timer,
                   machine, pulses, dispatched>>

\* A device withdraws its request after the controller raised INT for it.
Withdraw(irq) ==
    /\ LocalIrq(irq) \in irr[destination(irq)] \ imr[destination(irq)]
    /\ irr' = [irr EXCEPT ![destination(irq)] = @ \ {LocalIrq(irq)}]
    /\ glitch' = [glitch EXCEPT ![destination(irq)] = TRUE]
    /\ UNCHANGED <<isr, imr, ifFlag, handler, main, locks, listeners, timer, machine,
                   history>>

\* The CPU takes an interrupt between two instructions: the gate clears IF and the
\* handler starts. hlt ends when the handler returns.
Enter(irq) ==
    /\ Running /\ Idle /\ ifFlag
    /\ ifFlag' = FALSE
    /\ handler' = [pc |-> "lock", irq |-> irq]
    /\ main' = IF main = "hlt" THEN "sleep" ELSE main
    /\ UNCHANGED <<imr, locks, listeners, timer, machine, history>>

DeliverMaster ==
    /\ MasterReady # {} /\ Min(MasterReady) # Cascade
    /\ Enter(Min(MasterReady))
    /\ irr' = [irr EXCEPT !["master"] = @ \ {Min(MasterReady)}]
    /\ isr' = [isr EXCEPT !["master"] = @ \cup {Min(MasterReady)}]
    /\ UNCHANGED glitch

DeliverSlave ==
    /\ MasterReady # {} /\ Min(MasterReady) = Cascade /\ SlaveReady # {}
    /\ Enter(LinesPerPic + Min(SlaveReady))
    /\ irr' = [irr EXCEPT !["slave"] = @ \ {Min(SlaveReady)}]
    /\ isr' = [isr EXCEPT !["master"] = @ \cup {Cascade},
                          !["slave"] = @ \cup {Min(SlaveReady)}]
    /\ UNCHANGED glitch

\* A spurious interrupt has the number of the controller's last line and sets no
\* in-service bit there; the master still put the cascade in service for the slave.
DeliverSpurious(p) ==
    /\ glitch[p]
    /\ \/ p = "master" /\ MasterReady = {} /\ Enter(SpuriousLine) /\ UNCHANGED isr
       \/ /\ p = "slave" /\ SlaveReady = {}
          /\ MasterReady # {} /\ Min(MasterReady) = Cascade
          /\ Enter(LinesPerPic + SpuriousLine)
          /\ isr' = [isr EXCEPT !["master"] = @ \cup {Cascade}]
    /\ glitch' = [glitch EXCEPT ![p] = FALSE]
    /\ UNCHANGED irr

----------------------------------------------------------------------------
(* handle_irq: CHAINED_PICS.lock().handle_interrupt(irq, || dispatch_irq(irq)) *)

iret == handler' = NoHandler /\ ifFlag' = TRUE

HandleLock ==
    /\ HandlerAt("lock") /\ pics = "free"
    /\ pics' = "handler"
    /\ handler' = [handler EXCEPT !.pc = "check"]
    /\ UNCHANGED <<controllers, ifFlag, main, lazy, rwlock, listeners, timer, machine,
                   history>>

\* is_spurious overflows the shift: the panic handler prints and halts the machine.
HandlePanic ==
    /\ HandlerAt("check") /\ ShiftPanics(handler.irq)
    /\ panicked' = TRUE
    /\ UNCHANGED <<build, controllers, ifFlag, handler, main, locks, listeners, timer, history>>

\* Spurious: no listener runs. The slave's interrupt put the master's cascade line
\* in service, so the master is told.
HandleSpurious ==
    /\ HandlerAt("check") /\ ~ShiftPanics(handler.irq)
    /\ is_spurious(handler.irq)
    /\ isr' = IF destination(handler.irq) = "slave" THEN EndOfInterrupt("master") ELSE isr
    /\ pics' = "free"
    /\ iret
    /\ UNCHANGED <<irr, imr, glitch, main, lazy, rwlock, listeners, timer, machine, history>>

HandleReal ==
    /\ HandlerAt("check") /\ ~ShiftPanics(handler.irq)
    /\ ~is_spurious(handler.irq)
    /\ handler' = [handler EXCEPT !.pc = "deref"]
    /\ UNCHANGED <<controllers, ifFlag, main, locks, listeners, timer, machine, history>>

\* dispatch_irq's first use of LISTENERS initialises it. When the interrupted thread
\* is in the middle of doing so, the handler spins in Once::call_once.
DispatchDeref ==
    /\ HandlerAt("deref") /\ lazy # "running"
    /\ lazy' = "done"
    /\ handler' = [handler EXCEPT !.pc = "read"]
    /\ UNCHANGED <<controllers, ifFlag, main, pics, rwlock, listeners, timer, machine,
                   history>>

\* LISTENERS.read() waits for a writer.
DispatchRead ==
    /\ HandlerAt("read") /\ rwlock # "written"
    /\ rwlock' = "read"
    /\ handler' = [handler EXCEPT !.pc = "call"]
    /\ dispatched' = dispatched \cup {handler.irq}
    /\ UNCHANGED <<controllers, ifFlag, main, pics, lazy, listeners, timer, machine,
                   pulses, raised>>

\* The registered listeners run (tick adds one to COUNTER) and the read guard drops.
dispatch_irq ==
    /\ HandlerAt("call")
    /\ counter' = counter + listeners[handler.irq]
    /\ rwlock' = "free"
    /\ handler' = [handler EXCEPT !.pc = "eoi"]
    /\ UNCHANGED <<controllers, ifFlag, main, pics, lazy, listeners, pit, wake, machine,
                   history>>

HandleEoiForgotten ==
    /\ HandlerAt("eoi")
    /\ isr' = isr
    /\ pics' = "free"
    /\ iret
    /\ UNCHANGED <<irr, imr, glitch, main, lazy, rwlock, listeners, timer, machine, history>>

HandleEoiKeepsLock ==
    /\ HandlerAt("eoi")
    /\ isr' = EndOfInterrupt(destination(handler.irq))
    /\ iret
    /\ UNCHANGED <<irr, imr, glitch, main, locks, listeners, timer, machine, history>>

\* end_of_interrupt is sent to the controller the IRQ belongs to and to no other; the
\* mutex guard drops and the handler returns.
HandleEoi ==
    /\ HandlerAt("eoi")
    /\ isr' = EndOfInterrupt(destination(handler.irq))
    /\ pics' = "free"
    /\ iret
    /\ UNCHANGED <<irr, imr, glitch, main, lazy, rwlock, listeners, timer, machine, history>>

Handler ==
    \/ HandleLock \/ HandlePanic \/ HandleSpurious \/ HandleReal
    \/ DispatchDeref \/ DispatchRead \/ dispatch_irq \/ HandleEoi

----------------------------------------------------------------------------
(* kmain: interrupts::init, interrupts::enable, then pit initialize.        *)

\* interrupts::init: the initialisation words reset the controllers, and the masks
\* read before them are written back.
init_and_remap ==
    /\ MainAt("init")
    /\ irr' = [p \in Pics |-> {}] /\ isr' = [p \in Pics |-> {}]
    /\ imr' = imr
    /\ glitch' = [p \in Pics |-> FALSE]
    /\ main' = "ready"
    /\ UNCHANGED <<ifFlag, handler, locks, listeners, timer, machine, history>>

enable ==
    /\ MainAt("ready")
    /\ ifFlag' = TRUE
    /\ main' = "enabled"
    /\ UNCHANGED <<controllers, handler, locks, listeners, timer, machine, history>>

\* Controller::initialize: the mode word stops channel 0, COUNTER is cleared.
configure ==
    /\ MainAt("enabled")
    /\ pit' = "stopped" /\ counter' = 0
    /\ main' = "listen"
    /\ UNCHANGED <<controllers, ifFlag, handler, locks, listeners, wake, machine, history>>

\* listen: the first use of LISTENERS runs its initialiser, with interrupts enabled.
ListenDeref ==
    /\ MainAt("listen")
    /\ lazy' = IF lazy = "unset" THEN "running" ELSE lazy
    /\ main' = IF lazy = "unset" THEN "initializing" ELSE "write"
    /\ UNCHANGED <<controllers, ifFlag, handler, pics, rwlock, listeners, timer, machine,
                   history>>

ListenInitialized ==
    /\ MainAt("initializing")
    /\ lazy' = "done"
    /\ main' = "write"
    /\ UNCHANGED <<controllers, ifFlag, handler, pics, rwlock, listeners, timer, machine,
                   history>>

ListenWrite ==
    /\ MainAt("write") /\ rwlock = "free"
    /\ rwlock' = "written"
    /\ main' = "push"
    /\ UNCHANGED <<controllers, ifFlag, handler, pics, lazy, listeners, timer, machine,
                   history>>

ListenPushTwice ==
    /\ MainAt("push")
    /\ listeners' = [listeners EXCEPT ![PitIrq] = @ + 2]
    /\ rwlock' = "free"
    /\ main' = "reload"
    /\ UNCHANGED <<controllers, ifFlag, handler, pics, lazy, timer, machine, history>>

ListenPush ==
    /\ MainAt("push")
    /\ listeners' = [listeners EXCEPT ![PitIrq] = @ + 1]
    /\ rwlock' = "free"
    /\ main' = "reload"
    /\ UNCHANGED <<controllers, ifFlag, handler, pics, lazy, timer, machine, history>>

set_reload_value ==
    /\ MainAt("reload")
    /\ pit' = "loaded"
    /\ main' = "run"
    /\ UNCHANGED <<controllers, ifFlag, handler, locks, listeners, counter, wake, machine,
                   history>>

\* pit::sleep(ms)
Sleep(ms) ==
    /\ MainAt("run")
    /\ counter + ms <= MaxPulses
    /\ wake' = counter + ms
    /\ main' = "sleep"
    /\ UNCHANGED <<controllers, ifFlag, handler, locks, listeners, counter, pit, machine,
                   history>>

\* Mutant: the loop waits for one exact value, which a slept-through tick skips.
SleepCheckExact ==
    /\ MainAt("sleep")
    /\ main' = IF counter # wake THEN "checked" ELSE "run"
    /\ UNCHANGED <<controllers, ifFlag, handler, locks, listeners, timer, machine, history>>

\* One turn of sleep's loop: COUNTER is read, and hlt stops the thread until the next
\* interrupt. A tick that comes between the two is slept through.
SleepCheck ==
    /\ MainAt("sleep")
    /\ main' = IF counter < wake THEN "checked" ELSE "run"
    /\ UNCHANGED <<controllers, ifFlag, handler, locks, listeners, timer, machine, history>>

SleepHlt ==
    /\ MainAt("checked")
    /\ main' = "hlt"
    /\ UNCHANGED <<controllers, ifFlag, handler, locks, listeners, timer, machine, history>>

\* The halt system call: cli and hlt for ever.
halt ==
    /\ MainAt("run")
    /\ ifFlag' = FALSE
    /\ main' = "halted"
    /\ UNCHANGED <<controllers, handler, locks, listeners, timer, machine, history>>

Boot ==
    \/ init_and_remap \/ enable \/ configure \/ ListenDeref \/ ListenInitialized
    \/ ListenWrite \/ ListenPush \/ set_reload_value

Hardware ==
    \/ PitPulse
    \/ \E irq \in Devices : RaiseDevice(irq)
    \/ \E irq \in Glitches : Withdraw(irq)
    \/ DeliverMaster \/ DeliverSlave
    \/ \E p \in Pics : DeliverSpurious(p)

Next ==
    \/ Hardware \/ Handler \/ Boot
    \/ \E ms \in SleepTimes : Sleep(ms)
    \/ SleepCheck \/ SleepHlt \/ halt

Spec == Init /\ [][Next]_vars

----------------------------------------------------------------------------
(* The CPU takes a pending interrupt and executes the handler and the        *)
(* interrupted thread without stopping; the loaded timer keeps pulsing.      *)
(* Devices need not raise anything, and nothing obliges a caller to sleep    *)
(* or to halt.                                                               *)
Fairness ==
    /\ WF_vars(Handler)
    /\ WF_vars(DeliverMaster \/ DeliverSlave \/ \E p \in Pics : DeliverSpurious(p))
    /\ WF_vars(Boot) /\ WF_vars(SleepCheck \/ SleepHlt)
    /\ WF_vars(PitPulse)

FairSpec == Spec /\ Fairness
----------------------------------------------------------------------------
\* The registers of the controllers, the locks and the timer keep their ranges: no handler
\* and no step of the start-up addresses a line a controller does not have.
TypeOK ==
    /\ build \in Builds
    /\ irr \in [Pics -> SUBSET Lines] /\ isr \in [Pics -> SUBSET Lines]
    /\ imr \in [Pics -> SUBSET Lines] /\ glitch \in [Pics -> BOOLEAN]
    /\ ifFlag \in BOOLEAN /\ panicked \in BOOLEAN
    /\ handler.irq \in Irqs
    /\ pics \in {"free", "handler"}
    /\ lazy \in {"unset", "running", "done"} /\ rwlock \in {"free", "read", "written"}
    /\ listeners \in [Irqs -> Nat] /\ counter \in Nat /\ wake \in Nat
    /\ pit \in {"bios", "stopped", "loaded"}

\* Every pulse the controller latched since the timer was loaded is in exactly one place:
\* counted by tick, pending in the request register, or in a handler that has not
\* reached tick. No pulse is counted twice and none is dropped, wherever the handler
\* interrupts (pit.rs tick, interrupts.rs dispatch_irq, pic.rs handle_interrupt).
EveryPulseCountedOnce ==
    pit = "loaded" =>
        pulses = counter + Cardinality(irr["master"] \cap {PitIrq})
                 + (IF /\ handler.pc \in {"lock", "check", "deref", "read", "call"}
                       /\ handler.irq = PitIrq THEN 1 ELSE 0)

\* Between handlers nothing is left in service on the slave, and on the master nothing
\* but the cascade line (pic.rs handle_interrupt sends one end of interrupt per handled
\* IRQ; for a slave IRQ the master's is missing, see EveryIrqServed).
OnlyCascadeLeftInService ==
    Idle => isr["slave"] = {} /\ isr["master"] \subseteq {Cascade}

\* A listener never runs for a line the BIOS had masked, nor for an interrupt no device
\* raised: init_and_remap puts the masks back and is_spurious filters line 7 and 15.
OnlyRaisedIrqsDispatched ==
    /\ dispatched \subseteq Devices \cup {PitIrq}
    /\ \A irq \in dispatched : LocalIrq(irq) \notin BiosMask[destination(irq)]

\* An interrupt handler comes to its iret, unless it panicked: it never waits for ever for
\* CHAINED_PICS or LISTENERS (interrupts.rs handle_irq).
HandlerReturns == (~Idle) ~> (Idle \/ panicked)

Requested(irq) == LocalIrq(irq) \in irr[destination(irq)] \ BiosMask[destination(irq)]
Stopped == panicked \/ main = "halted"

\* A request on a line of higher priority than the cascade is always taken, whatever
\* happened on the slave before (pic.rs handle_interrupt).
UrgentIrqServed ==
    \A irq \in 0 .. Cascade - 1 : Requested(irq) ~> (~Requested(irq) \/ Stopped)

\* Any unmasked request is eventually taken, on either controller.
EveryIrqServed ==
    \A irq \in Irqs : Requested(irq) ~> (~Requested(irq) \/ Stopped)

\* sleep returns while the timer pulses: a tick between its check and its hlt delays it,
\* and does not strand it (pit.rs sleep).
SleepReturns == Asleep ~> (~Asleep \/ Stopped)
=============================================================================
