--------------------------- MODULE UserModeProofs ----------------------------
(***************************************************************************)
(* What a system call preserves, what ports the process has, and what the  *)
(* console shows, proved for every program, every text and every stack.    *)
(***************************************************************************)
EXTENDS UserMode, Facts, SequenceTheorems

----------------------------------------------------------------------------
(* The inductive invariant of the border between process and kernel.        *)

\* The kernel runs a system call.
InCall == pc \in {"callback", "print", "halt"}

\* Registers and memory keep their shape.
ShapeInv ==
    /\ DOMAIN regs = Registers /\ DOMAIN before = Registers
    /\ DOMAIN mem = UserStack \cup KernelStack
    /\ pc \in {"kmain", "user", "callback", "print", "halt", "returned", "panic", "halted"}

\* What the process has in r's registers that it never changes itself.
OfProcess(r) == r.rsp = UserRsp /\ r.rflags = 1 /\ r.cs = 51 /\ r.ss = 43

ProcessInv ==
    /\ Ring3 => OfProcess(regs)
    /\ (InCall \/ pc = "returned") => OfProcess(before)
    /\ \A a \in UserStack : a >= UserRsp => mem[a] = UserWord(a)

\* How many words are on the kernel stack, and what each of them is.
Depth == IF ip <= 8 THEN ip - 3 ELSE IF ip <= 11 THEN 5 ELSE 16 - ip
Saved(k) == CASE k = 1 -> before.rip + 1
              [] k = 2 -> before.rflags
              [] k = 3 -> before.rdx
              [] k = 4 -> before.rsi
              [] k = 5 -> before.rdi

StackInv ==
    InCall =>
        /\ ip \in 1 .. 17
        /\ pc # "callback" => ip = 10
        /\ ip >= 2 => USER_RSP = UserRsp
        /\ ip \in {1, 2, 17} => regs.rsp = UserRsp
        /\ ip \in 3 .. 16 => /\ regs.rsp = SYSCALL_STACK - Depth
                             /\ \A k \in 1 .. Depth : mem[SYSCALL_STACK - k] = Saved(k)

\* A register has the process's value until the handler is called, and again after it came
\* off the stack. Interrupts are off until the stack has been set up.
RegisterInv ==
    InCall =>
        /\ regs.rbx = before.rbx
        /\ regs.rflags = IF ip <= 8 THEN 0 ELSE 1
        /\ ip \notin 10 .. 11 => regs.rdi = before.rdi
        /\ ip \notin 10 .. 12 => regs.rsi = before.rsi
        /\ ip \notin 10 .. 13 => regs.rdx = before.rdx
        /\ ip \notin 10 .. 14 => regs.r11 = before.rflags
        /\ ip \notin 10 .. 15 => regs.rcx = before.rip + 1

GrantedMap == set_port_range_usable(NoPorts, FirstPort, LastPort, TRUE)
PortsInv == (Ring3 \/ InCall) => iomap = GrantedMap
BootInv == pc = "kmain" => iomap = NoPorts /\ regs.rflags = 1

\* A panic with interrupts on is one of syscall_handler, below the saved registers.
PanicInv == (pc = "panic" /\ regs.rflags = 1) => regs.rsp = SYSCALL_STACK - 5

CallInv == ShapeInv /\ ProcessInv /\ StackInv /\ RegisterInv /\ SyscallPreserves
           /\ PortsInv /\ BootInv /\ PanicInv

----------------------------------------------------------------------------
(* Segments, stacks and instructions.                                       *)

\* The selectors that sysretq derives from STAR are those of jump_usermode.
LEMMA Selectors == StarSysret + 16 = 51 /\ StarSysret + 8 = 43
<1>1. DOMAIN Gdt = 1 .. 6 /\ Gdt[5] = "user_ds" /\ \A i \in 1 .. 6 : Gdt[i] = "user_ds" => i = 5
  BY DEF Gdt
<1>2. (CHOOSE i \in DOMAIN Gdt : Gdt[i] = "user_ds") = 5
  BY <1>1
<1>3. Selector("user_ds", 3) = 8 * 5 + 3
  BY <1>2, Zenon DEF Selector
<1> QED BY <1>3 DEF StarSysret

\* The kernel stack: what is pushed, and an interrupt on top of it, stays on it.
LEMMA Stacks ==
  /\ SYSCALL_STACK \in Int /\ IrqWords \in Nat /\ UserRsp \in Nat
  /\ UserStack \subseteq Nat /\ KernelStack \subseteq Nat /\ UserStack \cap KernelStack = {}
  /\ SYSCALL_STACK - 5 - IrqWords .. SYSCALL_STACK - 1 \subseteq KernelStack
<1>1. Max(KernelStack) \in KernelStack
  BY HighestNumber, UserModeAssumption
<1>2. KernelStack \subseteq Nat /\ UserStack \cap KernelStack = {}
  BY UserModeAssumption
<1>3. SYSCALL_STACK \in Int
  <2>1. \A m \in KernelStack : m + 1 \in Int
    BY <1>2
  <2> QED BY <1>1, <2>1, Zenon DEF SYSCALL_STACK
<1> QED BY <1>2, <1>3, UserModeAssumption

\* syscall_callback, one instruction after the other.
LEMMA Instructions ==
  ASSUME ip \in 1 .. 17
  PROVE  /\ ip = 1 => Instruction = Do("save_rsp")
         /\ ip = 2 => Instruction = Do("load_stack")
         /\ ip = 3 => Instruction = Push("rcx")
         /\ ip = 4 => Instruction = Push("r11")
         /\ ip = 5 => Instruction = Push("rdx")
         /\ ip = 6 => Instruction = Push("rsi")
         /\ ip = 7 => Instruction = Push("rdi")
         /\ ip = 8 => Instruction = Do("sti")
         /\ ip = 9 => Instruction = Do("slice")
         /\ ip = 10 => Instruction = Do("call")
         /\ ip = 11 => Instruction = Pop("rdi")
         /\ ip = 12 => Instruction = Pop("rsi")
         /\ ip = 13 => Instruction = Pop("rdx")
         /\ ip = 14 => Instruction = Pop("r11")
         /\ ip = 15 => Instruction = Pop("rcx")
         /\ ip = 16 => Instruction = Do("restore_rsp")
         /\ ip = 17 => Instruction = Do("sysretq")
<1> USE DEF Instruction, syscall_callback
<1> QED OBVIOUS

----------------------------------------------------------------------------
(* The steps.                                                               *)

LEMMA CallInit == Init => CallInv
<1> SUFFICES ASSUME Init PROVE CallInv
  OBVIOUS
<1>1. pc = "kmain" /\ ~Ring3 /\ ~InCall
  BY DEF Init, Ring3, InCall
<1>2. ShapeInv
  BY <1>1 DEF Init, ShapeInv
<1>3. \A a \in UserStack : mem[a] = UserWord(a)
  BY DEF Init
<1>4. regs.rflags = 1
  BY DEF Init, Registers
<1> QED BY <1>1, <1>2, <1>3, <1>4 DEF CallInv, ProcessInv, StackInv, RegisterInv, SyscallPreserves,
           PortsInv, BootInv, PanicInv, Init

\* Output leaves process and stacks alone.
LEMMA Elsewhere ==
  ASSUME CallInv, UNCHANGED <<pc, machine, iomap, before>>
  PROVE  CallInv'
BY DEF CallInv, ShapeInv, ProcessInv, StackInv, RegisterInv, SyscallPreserves, PortsInv, BootInv, PanicInv,
       InCall, Ring3, OfProcess, Depth, Saved, machine

\* A panic begins: of the handler, where it was called, or of an exception.
LEMMA PanicStep ==
  ASSUME CallInv, Panics, \/ UNCHANGED regs /\ regs.rsp = SYSCALL_STACK - 5
                          \/ regs' = [regs EXCEPT !.rflags = 0]
  PROVE  CallInv'
<1>1. /\ pc' = "panic" /\ UNCHANGED <<ip, mem, USER_RSP, iomap, before>>
      /\ ~InCall' /\ ~Ring3'
  BY DEF Panics, fixed, InCall, Ring3
<1>2. DOMAIN regs = Registers
  BY DEF CallInv, ShapeInv
<1>3. DOMAIN regs' = Registers /\ PanicInv'
  <2>1. CASE UNCHANGED regs /\ regs.rsp = SYSCALL_STACK - 5
    <3>1. SYSCALL_STACK' = SYSCALL_STACK
      BY DEF SYSCALL_STACK
    <3> QED BY <2>1, <3>1, <1>2 DEF PanicInv
  <2>2. CASE regs' = [regs EXCEPT !.rflags = 0]
    BY <2>2, <1>2 DEF PanicInv, Registers
  <2> QED BY <2>1, <2>2
<1> QED BY <1>1, <1>3 DEF CallInv, ShapeInv, ProcessInv, StackInv, RegisterInv, SyscallPreserves,
           PortsInv, BootInv

\* jump_usermode sets up what the process relies on.
LEMMA RunStep == ASSUME CallInv, RunByPid PROVE CallInv'
<1>1. /\ pc = "kmain" /\ pc' = "user" /\ ~InCall' /\ Ring3'
      /\ iomap' = GrantedMap
  BY DEF CallInv, BootInv, RunByPid, InCall, Ring3, GrantedMap
<1>2. ShapeInv' /\ OfProcess(regs)'
  <2>1. DOMAIN regs = Registers /\ regs' = [regs EXCEPT !.cs = 51, !.ss = 43, !.rsp = UserRsp, !.rip = 1]
    BY DEF CallInv, ShapeInv, RunByPid
  <2>2. /\ DOMAIN regs' = Registers /\ regs'.cs = 51 /\ regs'.ss = 43 /\ regs'.rsp = UserRsp
        /\ regs'.rflags = regs.rflags
    BY <2>1 DEF Registers
  <2>3. regs.rflags = 1
    BY <1>1 DEF CallInv, BootInv
  <2> QED BY <1>1, <2>2, <2>3 DEF CallInv, ShapeInv, RunByPid, OfProcess
<1>3. ProcessInv'
  BY <1>1, <1>2 DEF CallInv, ProcessInv, RunByPid
<1> QED BY <1>1, <1>2, <1>3 DEF CallInv, StackInv, RegisterInv, SyscallPreserves, PortsInv, BootInv, PanicInv

LEMMA SyscallStep == ASSUME CallInv, Syscall PROVE CallInv'
<1>1. /\ pc = "user" /\ pc' = "callback" /\ ip' = 1 /\ InCall' /\ ~Ring3' /\ Ring3
      /\ UNCHANGED <<mem, iomap>>
  BY DEF Syscall, InCall, Ring3, fixed
<1>2. OfProcess(regs) /\ DOMAIN regs = Registers
  BY <1>1 DEF CallInv, ProcessInv, ShapeInv
<1>3. /\ DOMAIN before' = Registers /\ DOMAIN regs' = Registers
      /\ before'.rip = regs.rip /\ before'.rsp = regs.rsp /\ before'.rflags = regs.rflags
      /\ before'.cs = regs.cs /\ before'.ss = regs.ss
      /\ regs'.rbx = before'.rbx /\ regs'.rdi = before'.rdi /\ regs'.rsi = before'.rsi
      /\ regs'.rdx = before'.rdx /\ regs'.r11 = regs.rflags /\ regs'.rcx = regs.rip + 1
      /\ regs'.rflags = 0 /\ regs'.rsp = regs.rsp
  BY <1>2 DEF Syscall, Registers
<1>4. ShapeInv'
  BY <1>1, <1>3 DEF CallInv, ShapeInv
<1>5. ProcessInv'
  BY <1>1, <1>2, <1>3 DEF CallInv, ProcessInv, OfProcess
<1>6. StackInv'
  BY <1>1, <1>2, <1>3 DEF StackInv, OfProcess
<1>7. RegisterInv'
  BY <1>1, <1>3 DEF RegisterInv
<1> QED BY <1>1, <1>4, <1>5, <1>6, <1>7 DEF CallInv, SyscallPreserves, PortsInv, BootInv, PanicInv

\* AfterCall and UsePorts move the process on.
LEMMA UserStep ==
  ASSUME CallInv, Ring3, pc' = "user", UNCHANGED <<ip, mem, USER_RSP, iomap, before>>,
         regs' = regs \/ \E rip : regs' = [regs EXCEPT !.rip = rip]
  PROVE  CallInv'
<1>1. Ring3' /\ ~InCall' /\ pc' # "returned" /\ pc' # "kmain"
  BY DEF Ring3, InCall
<1>2. OfProcess(regs)' /\ DOMAIN regs' = Registers
  BY DEF CallInv, ShapeInv, ProcessInv, OfProcess, Registers
<1>3. ShapeInv' /\ ProcessInv'
  BY <1>1, <1>2 DEF CallInv, ShapeInv, ProcessInv
<1> QED BY <1>1, <1>3 DEF CallInv, StackInv, RegisterInv, SyscallPreserves, PortsInv, BootInv, PanicInv

\* An interrupt writes below what is on the stack, or below the process's stack pointer.
LEMMA IrqStep == ASSUME CallInv, Irq PROVE CallInv'
<1> DEFINE top == IF Ring3 THEN SYSCALL_STACK ELSE regs.rsp
<1>1. /\ UNCHANGED <<pc, ip, regs, USER_RSP, iomap, before>> /\ regs.rflags = 1
      /\ Ring3 \/ InCall \/ pc = "panic"
      /\ mem' = [a \in DOMAIN mem |-> IF a \in top - IrqWords .. top - 1 THEN IrqWord ELSE mem[a]]
      /\ DOMAIN mem = UserStack \cup KernelStack
  BY DEF Irq, fixed, InCall, CallInv, ShapeInv
<1>2. InCall => ip \in 9 .. 17 /\ ~Ring3
  BY <1>1 DEF InCall, Ring3, CallInv, RegisterInv, StackInv
<1>3. /\ ip \in 9 .. 16 => Depth \in 0 .. 5
      /\ (ip \in 9 .. 16 /\ InCall) => regs.rsp = SYSCALL_STACK - Depth
      /\ (ip = 17 /\ InCall) => regs.rsp = UserRsp
  BY DEF Depth, CallInv, StackInv
<1>4. \A a \in UserStack : a >= UserRsp => a \notin top - IrqWords .. top - 1
  <2>1. CASE InCall /\ ip = 17
    BY <2>1, <1>2, <1>3, Stacks
  <2>2. CASE Ring3
    BY <2>2, Stacks
  <2>3. CASE (InCall /\ ip \in 9 .. 16) \/ pc = "panic"
    <3>1. pc = "panic" => ~Ring3 /\ ~InCall /\ regs.rsp = SYSCALL_STACK - 5
      BY <1>1 DEF CallInv, PanicInv, Ring3, InCall
    <3>2. top - IrqWords .. top - 1 \subseteq SYSCALL_STACK - 5 - IrqWords .. SYSCALL_STACK - 1
      BY <2>3, <3>1, <1>2, <1>3, Stacks
    <3> QED BY <3>2, Stacks
  <2> QED BY <1>1, <1>2, <2>1, <2>2, <2>3
<1>5. \A a \in UserStack : a >= UserRsp => mem'[a] = UserWord(a)
  BY <1>1, <1>4 DEF CallInv, ProcessInv
<1>6. ASSUME InCall, ip \in 9 .. 16, NEW k \in 1 .. Depth
      PROVE  mem'[SYSCALL_STACK - k] = mem[SYSCALL_STACK - k]
  <2>1. SYSCALL_STACK - k \in KernelStack /\ SYSCALL_STACK - k \notin top - IrqWords .. top - 1
    BY <1>2, <1>3, <1>6, Stacks
  <2> QED BY <1>1, <2>1
<1> HIDE DEF top
<1>7. DOMAIN mem' = UserStack \cup KernelStack
  BY <1>1
<1>8. ShapeInv' /\ ProcessInv'
  BY <1>1, <1>5, <1>7 DEF CallInv, ShapeInv, ProcessInv, InCall, Ring3, OfProcess
<1>9. StackInv'
  <2>1. /\ (InCall' <=> InCall) /\ Depth' = Depth /\ regs' = regs /\ ip' = ip /\ pc' = pc
        /\ USER_RSP' = USER_RSP /\ \A k \in 1 .. Depth : Saved(k)' = Saved(k)
    BY <1>1 DEF InCall, Depth, Saved
  <2>2. InCall => /\ ip \in 9 .. 17
                  /\ pc # "callback" => ip = 10
                  /\ ip >= 2 => USER_RSP = UserRsp
                  /\ ip \in {1, 2, 17} => regs.rsp = UserRsp
                  /\ ip \in 3 .. 16 => /\ regs.rsp = SYSCALL_STACK - Depth
                                       /\ \A k \in 1 .. Depth : mem[SYSCALL_STACK - k] = Saved(k)
    BY <1>2 DEF CallInv, StackInv
  <2>3. InCall /\ ip \in 3 .. 16 => \A k \in 1 .. Depth : mem'[SYSCALL_STACK - k] = Saved(k)'
    BY <1>2, <1>6, <2>1, <2>2
  <2> QED BY <2>1, <2>2, <2>3 DEF StackInv
<1>10. RegisterInv' /\ SyscallPreserves' /\ PortsInv' /\ BootInv' /\ PanicInv'
  BY <1>1, <1>5 DEF CallInv, RegisterInv, SyscallPreserves, PortsInv, BootInv, PanicInv, InCall, Ring3
<1> QED BY <1>8, <1>9, <1>10 DEF CallInv

\* Inside a call, an instruction keeps the process's words and what is in `before'.
LEMMA InsideCall ==
  ASSUME CallInv, pc = "callback", pc' \in {"callback", "print", "halt"}, UNCHANGED <<iomap, before>>,
         DOMAIN regs' = Registers, DOMAIN mem' = UserStack \cup KernelStack,
         \A a \in UserStack : mem'[a] = mem[a],
         StackInv', RegisterInv'
  PROVE  CallInv'
<1>1. InCall /\ InCall' /\ ~Ring3' /\ pc' # "kmain" /\ pc' # "returned"
  BY DEF InCall, Ring3
<1>2. ShapeInv'
  BY DEF CallInv, ShapeInv
<1>3. ProcessInv'
  BY <1>1 DEF CallInv, ProcessInv, OfProcess
<1> QED BY <1>1, <1>2, <1>3 DEF CallInv, SyscallPreserves, PortsInv, BootInv, PanicInv

\* A push: the register goes to the next word of the stack.
LEMMA PushStep ==
  ASSUME CallInv, pc = "callback", Step, ip \in 3 .. 7, NEW r \in Registers, Instruction = Push(r),
         regs[r] = Saved(ip - 2), r # "rsp"
  PROVE  CallInv'
<1>1. /\ ip' = ip + 1 /\ regs' = [regs EXCEPT !.rsp = @ - 1]
      /\ mem' = [mem EXCEPT ![regs.rsp - 1] = regs[r]]
      /\ UNCHANGED <<pc, iomap, before>> /\ USER_RSP' = USER_RSP
  BY DEF Step, Push, fixed
<1>2. InCall /\ InCall' /\ DOMAIN regs = Registers /\ DOMAIN mem = UserStack \cup KernelStack
  BY <1>1 DEF InCall, CallInv, ShapeInv
<1>3. /\ Depth = ip - 3 /\ Depth' = ip - 2 /\ ip' \in 4 .. 8
      /\ regs.rsp = SYSCALL_STACK - (ip - 3)
  BY <1>1, <1>2 DEF Depth, CallInv, StackInv
<1>4. /\ SYSCALL_STACK - (ip - 2) \in KernelStack /\ regs.rsp - 1 = SYSCALL_STACK - (ip - 2)
      /\ \A k \in 1 .. ip - 3 : SYSCALL_STACK - k # SYSCALL_STACK - (ip - 2)
                                /\ SYSCALL_STACK - k \in KernelStack
  BY <1>3, Stacks
<1>5. /\ DOMAIN regs' = Registers /\ regs'.rsp = SYSCALL_STACK - (ip - 2)
      /\ \A q \in Registers \ {"rsp"} : regs'[q] = regs[q]
  BY <1>1, <1>2, <1>4 DEF Registers
<1>6. /\ DOMAIN mem' = UserStack \cup KernelStack /\ \A a \in UserStack : mem'[a] = mem[a]
      /\ mem'[SYSCALL_STACK - (ip - 2)] = regs[r]
      /\ \A k \in 1 .. ip - 3 : mem'[SYSCALL_STACK - k] = mem[SYSCALL_STACK - k]
  BY <1>1, <1>2, <1>4, Stacks
<1>7. \A k \in 1 .. ip - 2 : mem'[SYSCALL_STACK - k] = Saved(k)'
  <2>1. \A k \in 1 .. ip - 2 : Saved(k)' = Saved(k)
    BY <1>1 DEF Saved
  <2>2. \A k \in 1 .. ip - 3 : mem[SYSCALL_STACK - k] = Saved(k)
    BY <1>2, <1>3 DEF CallInv, StackInv
  <2>3. ASSUME NEW k \in 1 .. ip - 2 PROVE k \in 1 .. ip - 3 \/ k = ip - 2
    OBVIOUS
  <2> QED BY <1>6, <2>1, <2>2, <2>3
<1>8. StackInv'
  BY <1>1, <1>2, <1>3, <1>5, <1>7 DEF CallInv, StackInv
<1>9. RegisterInv'
  BY <1>1, <1>2, <1>3, <1>5 DEF CallInv, RegisterInv, Registers
<1> QED BY <1>1, <1>5, <1>6, <1>8, <1>9, InsideCall

\* A pop: the register has its value of before the call again.
LEMMA PopStep ==
  ASSUME CallInv, pc = "callback", Step, ip \in 11 .. 15 PROVE CallInv'
<1>0. PICK r \in Registers : /\ Instruction = Pop(r)
                            /\ (ip = 11 => r = "rdi")
                            /\ (ip = 12 => r = "rsi")
                            /\ (ip = 13 => r = "rdx")
                            /\ (ip = 14 => r = "r11")
                            /\ (ip = 15 => r = "rcx")
  BY Instructions DEF Registers
<1>1. ip' = ip + 1 /\ mem' = mem /\ UNCHANGED <<pc, iomap, before>> /\ USER_RSP' = USER_RSP
  BY <1>0 DEF Step, Pop, fixed
<1>r. regs' = [regs EXCEPT ![r] = mem[regs.rsp], !.rsp = @ + 1]
  BY <1>0 DEF Step, Pop
<1>2. InCall /\ InCall' /\ DOMAIN regs = Registers /\ DOMAIN mem = UserStack \cup KernelStack
  BY <1>1 DEF InCall, CallInv, ShapeInv
<1>3. /\ Depth = 16 - ip /\ Depth' = 15 - ip /\ ip' \in 12 .. 16
      /\ regs.rsp = SYSCALL_STACK - (16 - ip)
  <2>1. Depth = 16 - ip
    BY DEF Depth
  <2>2. Depth' = 15 - ip /\ ip' \in 12 .. 16
    <3>1. ip' \in 12 .. 16
      BY <1>1
    <3>2. Depth' = 16 - ip'
      BY <1>1, <3>1 DEF Depth
    <3> QED BY <1>1, <3>1, <3>2
  <2>3. regs.rsp = SYSCALL_STACK - Depth
    BY <1>2 DEF CallInv, StackInv
  <2> QED BY <2>1, <2>2, <2>3
<1>4. /\ mem[regs.rsp] = Saved(16 - ip)
      /\ \A k \in 1 .. 15 - ip : mem[SYSCALL_STACK - k] = Saved(k) /\ Saved(k)' = Saved(k)
  BY <1>1, <1>2, <1>3 DEF CallInv, StackInv, Saved
<1>5. /\ DOMAIN regs' = Registers /\ regs'.rsp = SYSCALL_STACK - (15 - ip)
      /\ regs'[r] = Saved(16 - ip)
      /\ \A q \in Registers \ {"rsp", r} : regs'[q] = regs[q]
  <2>1. r # "rsp" /\ "rsp" \in Registers
    BY <1>0 DEF Registers
  <2>2. (SYSCALL_STACK - (16 - ip)) + 1 = SYSCALL_STACK - (15 - ip)
    BY Stacks
  <2>3. /\ DOMAIN regs' = Registers /\ regs'.rsp = regs.rsp + 1 /\ regs'[r] = mem[regs.rsp]
        /\ \A q \in Registers \ {"rsp", r} : regs'[q] = regs[q]
    BY <1>r, <1>2, <2>1
  <2> QED BY <1>3, <1>4, <2>2, <2>3
<1>6. StackInv'
  BY <1>1, <1>2, <1>3, <1>4, <1>5 DEF CallInv, StackInv
<1>7. RegisterInv'
  <2> USE <1>0, <1>1, <1>2, <1>5 DEF CallInv, RegisterInv, Registers, Saved
  <2>1. CASE ip = 11
    BY <2>1
  <2>2. CASE ip = 12
    BY <2>2
  <2>3. CASE ip = 13
    BY <2>3
  <2>4. CASE ip = 14
    BY <2>4
  <2>5. CASE ip = 15
    BY <2>5
  <2> QED BY <2>1, <2>2, <2>3, <2>4, <2>5
<1> QED BY <1>1, <1>2, <1>5, <1>6, <1>7, InsideCall

\* The other instructions.
LEMMA RegisterStep ==
  ASSUME CallInv, pc = "callback", Step, ip \in {1, 2, 8, 9, 16}, NEW op, Instruction = Do(op),
         ip = 1 => op = "save_rsp", ip = 2 => op = "load_stack", ip = 8 => op = "sti",
         ip = 9 => op = "slice", ip = 16 => op = "restore_rsp"
  PROVE  CallInv'
<1>1. /\ ip' = ip + 1 /\ regs' = Effect(op)
      /\ mem' = mem /\ UNCHANGED <<pc, iomap, before>>
      /\ USER_RSP' = IF op = "save_rsp" THEN regs.rsp ELSE USER_RSP
  BY DEF Step, Do, fixed
<1>2. InCall /\ InCall' /\ DOMAIN regs = Registers /\ DOMAIN mem = UserStack \cup KernelStack
  BY <1>1 DEF InCall, CallInv, ShapeInv
<1>3. /\ ip' \in 1 .. 17 /\ ip' \in {2, 3, 9, 10, 17} /\ pc' = "callback"
      /\ \A k \in 1 .. 5 : Saved(k)' = Saved(k)
  BY <1>1 DEF Saved
<1>4. SYSCALL_STACK \in Int
  BY Stacks
<1>5. DOMAIN regs' = Registers /\ StackInv' /\ RegisterInv'
  <2>1. CASE ip = 1
    <3>1. regs' = regs /\ USER_RSP' = regs.rsp /\ ip' = 2
      BY <2>1, <1>1 DEF Effect
    <3> QED BY <3>1, <2>1, <1>1, <1>2 DEF CallInv, StackInv, RegisterInv
  <2>2. CASE ip = 2
    <3>1. regs' = [regs EXCEPT !.rsp = SYSCALL_STACK] /\ USER_RSP' = USER_RSP /\ ip' = 3
      BY <2>2, <1>1 DEF Effect
    <3>2. Depth' = 0 /\ SYSCALL_STACK - 0 = SYSCALL_STACK
      BY <3>1, <1>4 DEF Depth
    <3> QED BY <3>1, <3>2, <2>2, <1>1, <1>2 DEF CallInv, StackInv, RegisterInv, Registers
  <2>3. CASE ip = 8
    <3>1. regs' = [regs EXCEPT !.rflags = 1] /\ USER_RSP' = USER_RSP /\ ip' = 9
      BY <2>3, <1>1 DEF Effect
    <3>2. Depth = 5 /\ Depth' = 5
      BY <2>3, <3>1 DEF Depth
    <3> QED BY <3>1, <3>2, <2>3, <1>1, <1>2, <1>3 DEF CallInv, StackInv, RegisterInv, Registers
  <2>4. CASE ip = 9
    <3>1. /\ regs' = [regs EXCEPT !.rsi = regs.rsp, !.rdx = 3, !.rdi = regs.rax]
          /\ USER_RSP' = USER_RSP /\ ip' = 10
      BY <2>4, <1>1 DEF Effect
    <3>2. Depth = 5 /\ Depth' = 5
      BY <2>4, <3>1 DEF Depth
    <3>3. /\ DOMAIN regs' = Registers /\ regs'.rsp = regs.rsp /\ regs'.rflags = regs.rflags
          /\ regs'.rbx = regs.rbx
      BY <3>1, <1>2 DEF Registers
    <3> QED BY <3>1, <3>2, <3>3, <2>4, <1>1, <1>2, <1>3 DEF CallInv, StackInv, RegisterInv
  <2>5. CASE ip = 16
    <3>1. regs' = [regs EXCEPT !.rsp = USER_RSP] /\ USER_RSP' = USER_RSP /\ ip' = 17
      BY <2>5, <1>1 DEF Effect
    <3> QED BY <3>1, <2>5, <1>1, <1>2 DEF CallInv, StackInv, RegisterInv, Registers
  <2> QED BY <2>1, <2>2, <2>3, <2>4, <2>5
<1> QED BY <1>1, <1>2, <1>5, InsideCall

LEMMA InstructionStep == ASSUME CallInv, Step PROVE CallInv'
<1>1. pc = "callback" /\ Instruction.op \notin {"call", "sysretq"} /\ InCall
  BY DEF Step, InCall
<1>2. ip \in 1 .. 17
  BY <1>1 DEF CallInv, StackInv
<1>3. ip # 10 /\ ip # 17
  BY <1>1, <1>2, Instructions DEF Do
<1>4. CASE ip \in {1, 2, 8, 9, 16}
  <2>1. PICK op : /\ Instruction = Do(op)
                  /\ (ip = 1 => op = "save_rsp")
                  /\ (ip = 2 => op = "load_stack")
                  /\ (ip = 8 => op = "sti")
                  /\ (ip = 9 => op = "slice")
                  /\ (ip = 16 => op = "restore_rsp")
    BY <1>2, <1>4, Instructions
  <2> QED BY <1>1, <1>4, <2>1, RegisterStep
<1>5. CASE ip \in 3 .. 7
  <2> DEFINE r == CASE ip = 3 -> "rcx" [] ip = 4 -> "r11" [] ip = 5 -> "rdx" [] ip = 6 -> "rsi"
                    [] ip = 7 -> "rdi"
  <2>1. r \in Registers /\ r # "rsp" /\ Instruction = Push(r)
    BY <1>2, <1>5, Instructions DEF Registers
  <2>2. regs[r] = Saved(ip - 2)
    BY <1>1, <1>5 DEF CallInv, RegisterInv, Saved
  <2> HIDE DEF r
  <2> QED BY <1>1, <1>5, <2>1, <2>2, PushStep
<1>6. CASE ip \in 11 .. 15
  BY <1>1, <1>6, PopStep
<1> QED BY <1>2, <1>3, <1>4, <1>5, <1>6

\* The handler returns: what is on the stack is still there, the registers it may have changed
\* are those that come off the stack.
LEMMA ReturnStep ==
  ASSUME CallInv, InCall, ip = 10, NEW code, Returns(code), UNCHANGED <<mem, USER_RSP, iomap, before>>
  PROVE  CallInv'
<1>1. DOMAIN regs = Registers /\ ip' = 11 /\ pc' = "callback" /\ ~Ring3' /\ InCall'
  BY DEF CallInv, ShapeInv, Returns, Ring3, InCall
<1>2. /\ DOMAIN regs' = Registers /\ regs'.rsp = regs.rsp /\ regs'.rflags = regs.rflags
      /\ regs'.rbx = regs.rbx
  BY <1>1 DEF Returns, Registers
<1>3. /\ Depth = 5 /\ Depth' = 5
      /\ \A k \in 1 .. 5 : Saved(k)' = Saved(k)
  BY <1>1 DEF Depth, Saved
<1>4. StackInv'
  BY <1>1, <1>2, <1>3 DEF CallInv, StackInv
<1>5. RegisterInv'
  BY <1>1, <1>2 DEF CallInv, RegisterInv
<1>6. ShapeInv'
  BY <1>1, <1>2 DEF CallInv, ShapeInv
<1>7. ProcessInv'
  BY <1>1 DEF CallInv, ProcessInv, OfProcess
<1> QED BY <1>1, <1>4, <1>5, <1>6, <1>7 DEF CallInv, SyscallPreserves, PortsInv, BootInv, PanicInv

\* The handler goes on to print.
LEMMA EntersStep ==
  ASSUME CallInv, Calling, pc' \in {"print", "halt"}, UNCHANGED <<machine, iomap, before>>
  PROVE  CallInv'
<1>1. pc = "callback" /\ InCall /\ InCall' /\ ip \in 1 .. 17
  BY DEF Calling, InCall, CallInv, StackInv
<1>2. ip = 10
  BY <1>1, Instructions DEF Calling, Do, Push, Pop
<1>3. DOMAIN regs' = Registers /\ mem' = mem /\ DOMAIN mem = UserStack \cup KernelStack
  BY DEF machine, CallInv, ShapeInv
<1>4. StackInv'
  BY <1>1, <1>2 DEF CallInv, StackInv, machine, Depth, Saved
<1>5. RegisterInv'
  BY <1>1 DEF CallInv, RegisterInv, machine
<1> QED BY <1>1, <1>3, <1>4, <1>5, InsideCall

\* The machine stops.
LEMMA HaltedStep ==
  ASSUME CallInv, pc' = "halted", regs' = [regs EXCEPT !.rflags = 0],
         UNCHANGED <<ip, mem, USER_RSP, iomap, before>>
  PROVE  CallInv'
<1>1. DOMAIN regs' = Registers /\ ~Ring3' /\ ~InCall'
  BY DEF CallInv, ShapeInv, Ring3, InCall
<1> QED BY <1>1 DEF CallInv, ShapeInv, ProcessInv, StackInv, RegisterInv, SyscallPreserves, PortsInv, BootInv, PanicInv

\* sysretq: the process finds what it had.
LEMMA SysretStep == ASSUME CallInv, Sysret PROVE CallInv'
<1>1. /\ pc = "callback" /\ pc' = "returned" /\ InCall /\ ~InCall' /\ Ring3'
      /\ UNCHANGED <<mem, USER_RSP, iomap, before>> /\ ip \in 1 .. 17
  BY DEF Sysret, InCall, Ring3, fixed, CallInv, StackInv
<1>2. ip = 17
  BY <1>1, Instructions DEF Sysret, Do, Push, Pop
<1>3. /\ DOMAIN regs = Registers /\ regs' = [regs EXCEPT !.rip = regs.rcx, !.rflags = regs.r11,
                            !.cs = 51, !.ss = 43]
  BY Selectors DEF Sysret, CallInv, ShapeInv
<1>4. /\ DOMAIN regs' = Registers /\ regs'.rip = regs.rcx /\ regs'.rflags = regs.r11
      /\ regs'.cs = 51 /\ regs'.ss = 43 /\ regs'.rsp = regs.rsp /\ regs'.rbx = regs.rbx
      /\ regs'.rdi = regs.rdi /\ regs'.rsi = regs.rsi /\ regs'.rdx = regs.rdx
  BY <1>3 DEF Registers
<1>5. /\ regs.rbx = before.rbx /\ regs.rdi = before.rdi /\ regs.rsi = before.rsi
      /\ regs.rdx = before.rdx /\ regs.r11 = before.rflags /\ regs.rcx = before.rip + 1
  BY <1>1, <1>2 DEF CallInv, RegisterInv
<1>6. regs.rsp = UserRsp
  BY <1>1, <1>2 DEF CallInv, StackInv
<1>7. OfProcess(before) /\ \A a \in UserStack : a >= UserRsp => mem[a] = UserWord(a)
  BY <1>1 DEF CallInv, ProcessInv
<1>8. OfProcess(regs)'
  BY <1>4, <1>5, <1>6, <1>7 DEF OfProcess
<1>9. SyscallPreserves'
  BY <1>1, <1>4, <1>5, <1>6, <1>7, <1>8 DEF SyscallPreserves, Preserved, OfProcess
<1>10. ShapeInv' /\ ProcessInv'
  BY <1>1, <1>4, <1>7, <1>8 DEF CallInv, ShapeInv, ProcessInv, OfProcess
<1> QED BY <1>1, <1>9, <1>10 DEF CallInv, StackInv, RegisterInv, PortsInv, BootInv, PanicInv

LEMMA CallStep == ASSUME CallInv, [Next]_vars PROVE CallInv'
<1>1. CASE UNCHANGED vars
  BY <1>1, Elsewhere DEF vars, fixed
<1>2. ASSUME Calling PROVE ip = 10 /\ InCall
  <2>1. pc = "callback" /\ InCall /\ ip \in 1 .. 17
    BY <1>2 DEF Calling, InCall, CallInv, StackInv
  <2> QED BY <1>2, <2>1, Instructions DEF Calling, Do, Push, Pop
<1>3. CASE HandlerRefusesPrint
  BY <1>2, <1>3, ReturnStep DEF HandlerRefusesPrint, fixed
<1>4. CASE HandlerPrints
  BY <1>4, EntersStep DEF HandlerPrints, fixed
<1>5. CASE HandlerRefusesPages
  BY <1>2, <1>5, ReturnStep DEF HandlerRefusesPages, fixed
<1>6. CASE HandlerMaps
  BY <1>2, <1>6, ReturnStep DEF HandlerMaps, fixed
<1>7. CASE HandlerHalts
  BY <1>7, EntersStep DEF HandlerHalts, fixed
<1>8. CASE HandlerPanics
  <2>1. ip = 10 /\ InCall
    BY <1>2, <1>8 DEF HandlerPanics
  <2>2. regs.rsp = SYSCALL_STACK - 5
    BY <2>1 DEF CallInv, StackInv, Depth
  <2> QED BY <1>8, <2>2, PanicStep DEF HandlerPanics
<1>14. CASE Exception \/ PortsRefused
  BY <1>14, PanicStep DEF Exception, PortsRefused, Faults
<1>9. CASE Writes \/ PanicWrites
  BY <1>9, Elsewhere DEF Writes, PanicWrites, fixed
<1>10. CASE PrintDone
  <2>1. InCall /\ ip = 10
    BY <1>10 DEF PrintDone, InCall, CallInv, StackInv
  <2> QED BY <1>10, <2>1, ReturnStep DEF PrintDone, fixed
<1>11. CASE HaltDone \/ PanicHalts
  BY <1>11, HaltedStep DEF HaltDone, PanicHalts, fixed
<1>12. CASE AfterCall
  BY <1>12, UserStep DEF AfterCall, Ring3, fixed
<1>13. CASE UsePorts
  BY <1>13, UserStep DEF UsePorts, Ring3, fixed
<1> QED
  BY <1>1, <1>3, <1>4, <1>5, <1>6, <1>7, <1>8, <1>9, <1>10, <1>11, <1>12, <1>13, <1>14,
     RunStep, SyscallStep, InstructionStep, SysretStep, IrqStep DEF Next, Cpu, Handler

THEOREM CallsInvariant == Spec => []CallInv
BY CallInit, CallStep, PTL DEF Spec

----------------------------------------------------------------------------
(* What follows.                                                            *)

\* Every system call of every program returns to the instruction after it with the preserved
\* registers, the segments and the stack of the process as they were, wherever interrupts
\* came (syscall.rs syscall_callback, gdt.rs).
THEOREM CallsPreserve == Spec => []SyscallPreserves
<1>1. CallInv => SyscallPreserves
  BY DEF CallInv
<1> QED BY CallsInvariant, <1>1, PTL

\* A port's bit is 0 exactly if the port was granted: no other port has this bit of this byte.
LEMMA BitOfPort ==
  ASSUME iomap = GrantedMap, NEW byte \in 0 .. Ports \div 8, NEW bit \in Bits
  PROVE  iomap[byte][bit] = 0 <=> 8 * byte + bit \in FirstPort .. LastPort
<1>1. /\ Ports \in Nat /\ FirstPort \in Nat /\ LastPort \in Nat
  BY UserModeAssumption
<1>2. iomap[byte][bit] = 0 <=> \E port \in FirstPort .. LastPort : port \div 8 = byte /\ port % 8 = bit
  BY DEF GrantedMap, set_port_range_usable, NoPorts
<1>3. \A port \in Nat : (port \div 8 = byte /\ port % 8 = bit) <=> port = 8 * byte + bit
  BY <1>1 DEF Bits
<1>4. FirstPort .. LastPort \subseteq Nat /\ 8 * byte + bit \in Nat
  BY <1>1 DEF Bits
<1> QED BY <1>2, <1>3, <1>4

\* In ring 3 a group of ports can be used exactly when all of them were granted, wherever the
\* range begins and ends in the bitmap's bytes and wherever the group does (tss.rs).
THEOREM PortsGranted == Spec => []PortsAsGranted
<1>1. CallInv => PortsAsGranted
  <2> SUFFICES ASSUME CallInv, Ring3, NEW port \in 0 .. Ports - 1, NEW size \in {1, 2, 4}
               PROVE  MayAccess(port, size) <=> port .. port + size - 1 \subseteq FirstPort .. LastPort
    BY DEF PortsAsGranted
  <2> DEFINE b == port \div 8
             k == port % 8
  <2>1. iomap = GrantedMap
    BY DEF CallInv, PortsInv
  <2>2. Ports \in Nat /\ Ports % 8 = 0 /\ port \in Nat /\ size \in 1 .. 4
    BY UserModeAssumption
  <2>3. b \in Nat /\ k \in 0 .. 7 /\ port = 8 * b + k /\ b + 1 \in 0 .. Ports \div 8
    BY <2>2
  <2>4. b + 1 \in DOMAIN iomap
    BY <2>1, <2>3 DEF GrantedMap, set_port_range_usable, NoPorts
  <2> HIDE DEF b, k
  <2>5. ASSUME NEW i \in 0 .. size - 1
        PROVE  WordBit(b, k + i) = 0 <=> port + i \in FirstPort .. LastPort
    <3>1. CASE k + i \in Bits
      <4>1. b \in 0 .. Ports \div 8 /\ 8 * b + (k + i) = port + i
        BY <2>2, <2>3
      <4> QED BY <3>1, <4>1, <2>1, BitOfPort DEF WordBit
    <3>2. CASE k + i \notin Bits
      <4>1. k + i - 8 \in Bits /\ 8 * (b + 1) + (k + i - 8) = port + i
        BY <3>2, <2>2, <2>3 DEF Bits
      <4> QED BY <3>2, <4>1, <2>1, <2>3, BitOfPort DEF WordBit
    <3> QED BY <3>1, <3>2
  <2>6. /\ \A bit \in k .. k + size - 1 : bit - k \in 0 .. size - 1 /\ k + (bit - k) = bit
        /\ \A p \in port .. port + size - 1 : p - port \in 0 .. size - 1 /\ port + (p - port) = p
        /\ \A i \in 0 .. size - 1 : k + i \in k .. k + size - 1 /\ port + i \in port .. port + size - 1
    BY <2>2, <2>3
  <2>7. MayAccess(port, size) <=> \A bit \in k .. k + size - 1 : WordBit(b, bit) = 0
    BY <2>4 DEF MayAccess, b, k
  <2>8. (\A bit \in k .. k + size - 1 : WordBit(b, bit) = 0)
          <=> \A i \in 0 .. size - 1 : WordBit(b, k + i) = 0
    BY <2>6, Zenon
  <2>9. port .. port + size - 1 \subseteq FirstPort .. LastPort
          <=> \A i \in 0 .. size - 1 : port + i \in FirstPort .. LastPort
    BY <2>6, Zenon
  <2> QED BY <2>5, <2>7, <2>8, <2>9
<1> QED BY CallsInvariant, <1>1, PTL

----------------------------------------------------------------------------
(* The layout of a text.                                                    *)

\* The column after a column.
LEMMA NextColumn ==
  ASSUME NEW m \in Nat, NEW w \in Nat \ {0}
  PROVE  /\ m % w \in 0 .. w - 1
         /\ (m % w) + 1 = w => (m + 1) % w = 0
         /\ (m % w) + 1 # w => (m + 1) % w = (m % w) + 1
<1> DEFINE q == m \div w
           r == m % w
<1>1. q \in Nat /\ r \in 0 .. w - 1 /\ m = w * q + r
  OBVIOUS
<1> HIDE DEF q, r
<1>2. CASE r + 1 = w
  <2>1. m + 1 = w * (q + 1) + 0 /\ q + 1 \in Nat
    BY <1>1, <1>2
  <2>2. (w * (q + 1) + 0) % w = 0
    BY <2>1
  <2> QED BY <1>1, <1>2, <2>1, <2>2 DEF r
<1>3. CASE r + 1 # w
  <2>1. m + 1 = w * q + (r + 1) /\ r + 1 \in 0 .. w - 1
    BY <1>1, <1>3
  <2>2. (w * q + (r + 1)) % w = r + 1
    BY <1>1, <2>1
  <2> QED BY <1>1, <1>3, <2>1, <2>2 DEF r
<1> QED BY <1>2, <1>3

LEMMA LayoutTypes ==
  ASSUME NEW chars, NEW n \in Nat, DOMAIN chars = 1 .. n, NEW i \in 1 .. n + 1
  PROVE  /\ LineStart(chars, i) \in 0 .. i - 1
         /\ \A k \in 1 .. i - 1 : chars[k] = NL => k <= LineStart(chars, i)
         /\ LineStart(chars, i) = 0 \/ chars[LineStart(chars, i)] = NL
         /\ IsFiniteSet(Breaks(chars)) /\ Breaks(chars) \subseteq 1 .. n
         /\ Line(chars, i) \in Nat /\ Column(chars, i) \in Columns
<1> DEFINE S == {0} \cup {k \in 1 .. i - 1 : chars[k] = NL}
<1>1. S \subseteq 0 .. i - 1 /\ S # {} /\ S \in SUBSET Int
  OBVIOUS
<1>2. IsFiniteSet(S)
  <2>1. IsFiniteSet(0 .. i - 1)
    BY FS_Interval
  <2> QED BY <1>1, <2>1, FS_Subset, Zenon
<1>3. Max(S) \in S /\ \A l \in S : l <= Max(S)
  BY <1>1, <1>2, HighestNumber, Zenon
<1>4. LineStart(chars, i) = Max(S)
  BY DEF LineStart
<1> HIDE DEF S
<1>5. /\ LineStart(chars, i) \in S
      /\ \A l \in S : l <= LineStart(chars, i)
  BY <1>3, <1>4, Zenon
<1>6. Breaks(chars) \subseteq 1 .. n
  BY DEF Breaks
<1>7. IsFiniteSet(1 .. n)
  BY FS_Interval
<1>8. IsFiniteSet(Breaks(chars))
  BY <1>6, <1>7, FS_Subset, Zenon
<1>9. {k \in Breaks(chars) : k < i} \in SUBSET Breaks(chars)
  OBVIOUS
<1>10. IsFiniteSet({k \in Breaks(chars) : k < i})
  BY <1>8, <1>9, FS_Subset, Zenon
<1>11. Line(chars, i) \in Nat
  BY <1>10, FS_CardinalityType, Zenon DEF Line
<1>12. LineStart(chars, i) \in 0 .. i - 1
  BY <1>1, <1>5
<1>13. Column(chars, i) \in Columns
  <2> DEFINE m == i - LineStart(chars, i) - 1
  <2>1. m \in Nat
    BY <1>12
  <2>2. Width \in Nat \ {0}
    BY ConsoleAssumption
  <2>3. Column(chars, i) = m % Width
    BY DEF Column
  <2> HIDE DEF m
  <2> QED BY <2>1, <2>2, <2>3, NextColumn, Zenon DEF Columns
<1>14. /\ \A k \in 1 .. i - 1 : chars[k] = NL => k <= LineStart(chars, i)
       /\ LineStart(chars, i) = 0 \/ chars[LineStart(chars, i)] = NL
  BY <1>5 DEF S
<1> QED BY <1>6, <1>8, <1>11, <1>12, <1>13, <1>14

\* Where a character is does not depend on what comes after it.
LEMMA PrefixPlaces ==
  ASSUME NEW chars, NEW more, NEW n \in Nat, DOMAIN chars = 1 .. n, DOMAIN more = 1 .. n + 1,
         \A i \in 1 .. n : more[i] = chars[i], NEW i \in 1 .. n + 1
  PROVE  /\ LineStart(more, i) = LineStart(chars, i)
         /\ Line(more, i) = Line(chars, i) /\ Column(more, i) = Column(chars, i)
<1>1. ASSUME NEW j \in 1 .. n + 1 PROVE LineStart(more, j) = LineStart(chars, j)
  <2>1. {k \in 1 .. j - 1 : more[k] = NL} = {k \in 1 .. j - 1 : chars[k] = NL}
    OBVIOUS
  <2> QED BY <2>1, Zenon DEF LineStart
<1>2. {k \in Breaks(more) : k < i} = {k \in Breaks(chars) : k < i}
  BY <1>1 DEF Breaks
<1>3. Line(more, i) = Line(chars, i)
  BY <1>2, Zenon DEF Line
<1>4. Column(more, i) = Column(chars, i)
  BY <1>1, Zenon DEF Column
<1> QED BY <1>1, <1>3, <1>4

\* The place after a character: the next column, or the start of a line.
LEMMA NextPlace ==
  ASSUME NEW chars, NEW n \in Nat, DOMAIN chars = 1 .. n, NEW i \in 1 .. n
  PROVE  /\ i \in Breaks(chars) <=> (chars[i] = NL \/ Column(chars, i) + 1 = Width)
         /\ i \in Breaks(chars) => /\ Line(chars, i + 1) = Line(chars, i) + 1
                                   /\ Column(chars, i + 1) = 0
         /\ i \notin Breaks(chars) => /\ Line(chars, i + 1) = Line(chars, i)
                                      /\ Column(chars, i + 1) = Column(chars, i) + 1
<1> DEFINE s == LineStart(chars, i)
           t == LineStart(chars, i + 1)
           before1 == {k \in Breaks(chars) : k < i}
           before2 == {k \in Breaks(chars) : k < i + 1}
<1>1. /\ s \in 0 .. i - 1 /\ t \in 0 .. i /\ Width \in Nat \ {0}
      /\ \A k \in 1 .. i - 1 : chars[k] = NL => k <= s
      /\ \A k \in 1 .. i : chars[k] = NL => k <= t
      /\ s = 0 \/ chars[s] = NL
      /\ t = 0 \/ chars[t] = NL
      /\ IsFiniteSet(Breaks(chars)) /\ Breaks(chars) \subseteq 1 .. n
      /\ Line(chars, i) \in Nat /\ Column(chars, i) \in Columns
  <2>1. i + 1 \in 1 .. n + 1 /\ i \in 1 .. n + 1 /\ (i + 1) - 1 = i
    OBVIOUS
  <2> QED BY <2>1, LayoutTypes, ConsoleAssumption
<1>4. Column(chars, i) = (i - s - 1) % Width /\ Column(chars, i + 1) = ((i + 1) - t - 1) % Width
  BY Zenon DEF Column
<1> HIDE DEF s, t
<1>2. (chars[i] = NL => t = i) /\ (chars[i] # NL => t = s)
  BY <1>1
<1>3. /\ i - s - 1 \in Nat /\ (i - s - 1) + 1 = i - s
      /\ (i + 1) - s - 1 = i - s /\ (i + 1) - i - 1 = 0
  BY <1>1
<1>5. /\ ((i - s - 1) % Width) + 1 = Width => (i - s) % Width = 0
      /\ ((i - s - 1) % Width) + 1 # Width => (i - s) % Width = ((i - s - 1) % Width) + 1
      /\ (i - s - 1) % Width \in 0 .. Width - 1
  <2> DEFINE m == i - s - 1
  <2>1. m \in Nat /\ m + 1 = i - s
    BY <1>3
  <2> HIDE DEF m
  <2>2. /\ (m % Width) + 1 = Width => (m + 1) % Width = 0
        /\ (m % Width) + 1 # Width => (m + 1) % Width = (m % Width) + 1
        /\ m % Width \in 0 .. Width - 1
    BY <1>1, <2>1, NextColumn
  <2> QED BY <2>1, <2>2, Zenon DEF m
<1>6. i \in Breaks(chars) <=> (chars[i] = NL \/ (i - s) % Width = 0)
  BY DEF Breaks, s
<1>7. i \in Breaks(chars) <=> (chars[i] = NL \/ Column(chars, i) + 1 = Width)
  BY <1>1, <1>4, <1>5, <1>6
<1>8. 0 % Width = 0
  BY <1>1
<1>9. /\ i \in Breaks(chars) => Column(chars, i + 1) = 0
      /\ i \notin Breaks(chars) => Column(chars, i + 1) = Column(chars, i) + 1
  BY <1>2, <1>3, <1>4, <1>5, <1>6, <1>8
<1>10. IsFiniteSet(before1) /\ i \notin before1 /\ Line(chars, i) = Cardinality(before1)
  <2>1. before1 \in SUBSET Breaks(chars)
    OBVIOUS
  <2>2. IsFiniteSet(before1)
    BY <1>1, <2>1, FS_Subset, Zenon
  <2> QED BY <2>2 DEF Line
<1>11. Line(chars, i + 1) = Cardinality(before2)
  BY DEF Line
<1>12. CASE i \in Breaks(chars)
  <2>1. before2 = before1 \cup {i}
    BY <1>1, <1>12
  <2> HIDE DEF before1, before2
  <2>2. Cardinality(before1 \cup {i}) = Cardinality(before1) + 1
    BY <1>10, FS_AddElement, Zenon
  <2> QED BY <1>7, <1>9, <1>10, <1>11, <1>12, <2>1, <2>2
<1>13. CASE i \notin Breaks(chars)
  <2>1. before2 = before1
    BY <1>1, <1>13
  <2> HIDE DEF before1, before2
  <2> QED BY <1>7, <1>9, <1>10, <1>11, <1>13, <2>1
<1> QED BY <1>12, <1>13

\* Characters follow each other along the lines: no two of them share a place.
LEMMA PlacesInOrder ==
  ASSUME NEW chars, NEW n \in Nat, DOMAIN chars = 1 .. n, NEW i \in 1 .. n + 1, NEW k \in 1 .. n + 1,
         i < k
  PROVE  \/ Line(chars, i) < Line(chars, k)
         \/ (Line(chars, i) = Line(chars, k) /\ Column(chars, i) < Column(chars, k))
<1> DEFINE After(m) == \/ Line(chars, i) < Line(chars, m)
                       \/ (Line(chars, i) = Line(chars, m) /\ Column(chars, i) < Column(chars, m))
           Bad == {m \in i + 1 .. n + 1 : ~After(m)}
<1>1. \A m \in 1 .. n + 1 : Line(chars, m) \in Nat /\ Column(chars, m) \in Nat
  BY LayoutTypes, ConsoleAssumption DEF Columns
<1>2. ASSUME Bad # {} PROVE FALSE
  <2>1. Bad \in SUBSET Nat
    OBVIOUS
  <2>2. Min(Bad) \in Bad /\ \A l \in Bad : Min(Bad) <= l
    BY <1>2, <2>1, LowestNumber, Zenon
  <2>3. PICK m \in Bad : \A l \in Bad : m <= l
    BY <2>2, Zenon
  <2>4. m - 1 \in 1 .. n /\ (m - 1) + 1 = m /\ m - 1 \notin Bad
    BY <2>3
  <2>5. m - 1 = i \/ After(m - 1)
    BY <2>4
  <2>6. \/ Line(chars, m) = Line(chars, m - 1) + 1
        \/ (Line(chars, m) = Line(chars, m - 1) /\ Column(chars, m) = Column(chars, m - 1) + 1)
    <3> DEFINE j == m - 1
    <3>1. j \in 1 .. n /\ j + 1 = m
      BY <2>4
    <3> HIDE DEF j
    <3>2. \/ Line(chars, j + 1) = Line(chars, j) + 1
          \/ (Line(chars, j + 1) = Line(chars, j) /\ Column(chars, j + 1) = Column(chars, j) + 1)
      BY <3>1, NextPlace
    <3> QED BY <3>1, <3>2 DEF j
  <2>7. After(m)
    <3>1. /\ Line(chars, i) \in Nat /\ Line(chars, m - 1) \in Nat /\ Line(chars, m) \in Nat
          /\ Column(chars, i) \in Nat /\ Column(chars, m - 1) \in Nat /\ Column(chars, m) \in Nat
      BY <1>1, <2>4
    <3> QED BY <2>5, <2>6, <3>1
  <2> QED BY <2>7
<1> QED BY <1>2

----------------------------------------------------------------------------
(* Writing a character.                                                     *)

IsScreen(s) == DOMAIN s = Rows /\ \A r \in Rows : DOMAIN s[r] = Columns

\* The cursor and the first line on the screen when the next character goes to line l.
CursorY(l) == IF l < Height THEN Height - 1 - l ELSE 0
Top(l) == IF l < Height THEN 0 ELSE l + 1 - Height
CursorAt(chars, i) == [x |-> Column(chars, i), y |-> CursorY(Line(chars, i))]

\* ShowsFrom for the first k characters of a text.
ShownTo(s, chars, skip, k) ==
    \A i \in Visible(chars) :
        (i <= k /\ Line(chars, i) >= skip)
            => s[Line(chars, i) - skip][Column(chars, i)] = Byte(chars[i])
ClearBut(s, chars, skip, k) ==
    \A r \in Rows, x \in Columns :
        (\A i \in Visible(chars) : i <= k => ~(Line(chars, i) = skip + r /\ Column(chars, i) = x))
            => s[r][x] = Blank

LEMMA Put ==
  ASSUME NEW s, IsScreen(s), NEW r \in Rows, NEW x \in Columns, NEW b
  PROVE  LET t == [s EXCEPT ![r][x] = b]
         IN  /\ IsScreen(t) /\ t[r][x] = b
             /\ \A q \in Rows, z \in Columns : q # r \/ z # x => t[q][z] = s[q][z]
  BY DEF IsScreen

\* Scrolling moves the lines up by one, and nothing of what is to be seen is lost.
LEMMA Scrolled ==
  ASSUME NEW s, IsScreen(s), NEW chars, NEW n \in Nat, DOMAIN chars = 1 .. n, NEW k \in 1 .. n,
         NEW skip \in Nat,
         \A i \in 1 .. k : Line(chars, i) <= skip + Height - 1
  PROVE  /\ IsScreen(scroll_down(s))
         /\ ShownTo(s, chars, skip, k) => ShownTo(scroll_down(s), chars, skip + 1, k)
         /\ ClearBut(s, chars, skip, k) => ClearBut(scroll_down(s), chars, skip + 1, k)
<1> DEFINE t == scroll_down(s)
<1>1. Height \in Nat \ {0} /\ Rows = 0 .. Height - 1
  BY ConsoleAssumption DEF Rows
<1>2. /\ DOMAIN t = Rows
      /\ \A r \in Rows : r # Height - 1 => t[r] = s[r + 1] /\ r + 1 \in Rows
      /\ t[Height - 1] = BlankRow
  BY <1>1 DEF scroll_down
<1> HIDE DEF t
<1>3. IsScreen(t)
  BY <1>1, <1>2 DEF IsScreen, BlankRow
<1>4. \A i \in 1 .. n : Line(chars, i) \in Nat /\ Column(chars, i) \in Columns
  BY LayoutTypes
<1>5. Visible(chars) \subseteq 1 .. n
  BY DEF Visible
<1>6. ASSUME ShownTo(s, chars, skip, k) PROVE ShownTo(t, chars, skip + 1, k)
  <2> SUFFICES ASSUME NEW i \in Visible(chars), i <= k, Line(chars, i) >= skip + 1
               PROVE  t[Line(chars, i) - (skip + 1)][Column(chars, i)] = Byte(chars[i])
    BY DEF ShownTo
  <2>1. i \in 1 .. k /\ Line(chars, i) \in Nat
    BY <1>4, <1>5
  <2>2. Line(chars, i) <= skip + Height - 1
    BY <2>1
  <2>3. /\ Line(chars, i) - (skip + 1) \in Rows /\ Line(chars, i) - (skip + 1) # Height - 1
        /\ (Line(chars, i) - (skip + 1)) + 1 = Line(chars, i) - skip /\ Line(chars, i) >= skip
    BY <1>1, <2>1, <2>2
  <2>4. s[Line(chars, i) - skip][Column(chars, i)] = Byte(chars[i])
    BY <1>6, <2>3 DEF ShownTo
  <2> QED BY <1>2, <2>3, <2>4
<1>7. ASSUME ClearBut(s, chars, skip, k) PROVE ClearBut(t, chars, skip + 1, k)
  <2> SUFFICES ASSUME NEW r \in Rows, NEW x \in Columns,
                      \A i \in Visible(chars) :
                          i <= k => ~(Line(chars, i) = (skip + 1) + r /\ Column(chars, i) = x)
               PROVE  t[r][x] = Blank
    BY DEF ClearBut
  <2>1. CASE r = Height - 1
    BY <1>2, <2>1 DEF BlankRow
  <2>2. CASE r # Height - 1
    <3>1. t[r] = s[r + 1] /\ r + 1 \in Rows /\ (skip + 1) + r = skip + (r + 1)
      BY <1>1, <1>2, <2>2
    <3>2. s[r + 1][x] = Blank
      BY <1>7, <3>1 DEF ClearBut
    <3> QED BY <3>1, <3>2
  <2> QED BY <2>1, <2>2
<1> QED BY <1>3, <1>6, <1>7 DEF t

\* The same for a terminal, with its cursor.
LEMMA SetCell ==
  ASSUME NEW s, NEW r, NEW x \in Nat, NEW y, NEW b
  PROVE  LET t == [[screen |-> s, cursor |-> [x |-> x, y |-> y]]
                      EXCEPT !.screen[r][x] = b, !.cursor.x = @ + 1]
         IN  /\ t.screen = [s EXCEPT ![r][x] = b] /\ t.cursor = [x |-> x + 1, y |-> y]
             /\ DOMAIN t = {"screen", "cursor"}
<1> DEFINE c == [x |-> x, y |-> y]
<1>1. c.x = x /\ [c EXCEPT !.x = @ + 1] = [x |-> x + 1, y |-> y]
  OBVIOUS
<1> HIDE DEF c
<1> DEFINE t == [[screen |-> s, cursor |-> c] EXCEPT !.screen[r][x] = b, !.cursor.x = @ + 1]
<1>2. t.screen = [s EXCEPT ![r][x] = b] /\ t.cursor = [c EXCEPT !.x = @ + 1]
  OBVIOUS
<1>3. DOMAIN t = {"screen", "cursor"}
  OBVIOUS
<1> QED BY <1>1, <1>2, <1>3, Zenon DEF c

\* Where the cursor is, and how it moves on to the next line.
LEMMA Lines ==
  ASSUME NEW l \in Nat
  PROVE  /\ CursorY(l) \in Nat /\ Top(l) \in Nat /\ Height \in Nat \ {0}
         /\ Height - 1 - CursorY(l) = l - Top(l) /\ l - Top(l) \in Rows
         /\ CursorY(l) > 0 => (Top(l + 1) = Top(l) /\ CursorY(l + 1) = CursorY(l) - 1)
         /\ ~(CursorY(l) > 0) => (/\ Top(l + 1) = Top(l) + 1 /\ CursorY(l + 1) = 0
                                 /\ l = Top(l) + Height - 1)
<1>1. Height \in Nat \ {0}
  BY ConsoleAssumption
<1> QED BY <1>1 DEF CursorY, Top, Rows

\* write_coloured puts the character at its place and moves cursor and screen on to the next.
LEMMA WriteStep ==
  ASSUME NEW s, IsScreen(s), NEW chars, NEW n \in Nat, DOMAIN chars = 1 .. n, NEW k \in 1 .. n,
         NEW t, t = write_coloured([screen |-> s, cursor |-> CursorAt(chars, k)], chars[k])
  PROVE  /\ IsScreen(t.screen) /\ t.cursor = CursorAt(chars, k + 1)
         /\ ShownTo(s, chars, Top(Line(chars, k)), k - 1)
               => ShownTo(t.screen, chars, Top(Line(chars, k + 1)), k)
         /\ ClearBut(s, chars, Top(Line(chars, k)), k - 1)
               => ClearBut(t.screen, chars, Top(Line(chars, k + 1)), k)
<1> DEFINE l == Line(chars, k)
           x == Column(chars, k)
           y == CursorY(l)
           skip == Top(l)
           put == IF chars[k] = NL THEN s ELSE [s EXCEPT ![l - skip][x] = Byte(chars[k])]
<1>1. /\ l \in Nat /\ x \in Columns /\ x \in Nat /\ x < Width /\ Width \in Nat \ {0}
      /\ skip \in Nat /\ y \in Nat /\ l - skip \in Rows /\ Height - 1 - y = l - skip
  <2>1. k \in 1 .. n + 1
    OBVIOUS
  <2>2. l \in Nat /\ x \in Columns
    BY <2>1, LayoutTypes
  <2>3. x \in Nat /\ x < Width /\ Width \in Nat \ {0}
    BY <2>2, ConsoleAssumption DEF Columns
  <2> QED BY <2>2, <2>3, Lines
<1>2. /\ \A i \in 1 .. n : Line(chars, i) \in Nat /\ Column(chars, i) \in Columns
      /\ \A i \in 1 .. k : Line(chars, i) <= l
      /\ \A i \in 1 .. k - 1 : Line(chars, i) # l \/ Column(chars, i) # x
  <2>1. \A i \in 1 .. n : Line(chars, i) \in Nat /\ Column(chars, i) \in Columns
    BY LayoutTypes
  <2>2. \A i \in 1 .. k - 1 : \/ Line(chars, i) < l
                              \/ (Line(chars, i) = l /\ Column(chars, i) < x)
    BY PlacesInOrder
  <2>3. \A i \in 1 .. n : Column(chars, i) \in Nat
    BY <2>1, <1>1 DEF Columns
  <2>4. Line(chars, k) = l
    OBVIOUS
  <2> HIDE DEF l, x
  <2>5. \A i \in 1 .. k : i \in 1 .. k - 1 \/ i = k
    OBVIOUS
  <2>6. \A i \in 1 .. k - 1 : i \in 1 .. n
    OBVIOUS
  <2>7. \A i \in 1 .. k - 1 : Line(chars, i) <= l
    BY <1>1, <2>1, <2>2, <2>6
  <2>8. \A i \in 1 .. k : Line(chars, i) <= l
    BY <1>1, <2>4, <2>5, <2>7
  <2>9. ASSUME NEW i \in 1 .. k - 1 PROVE Line(chars, i) # l \/ Column(chars, i) # x
    <3>1. /\ Line(chars, i) \in Nat /\ Column(chars, i) \in Nat
          /\ (Line(chars, i) < l \/ (Line(chars, i) = l /\ Column(chars, i) < x))
      BY <2>1, <2>2, <2>3, <2>6
    <3> QED BY <1>1, <3>1
  <2> QED BY <2>1, <2>8, <2>9
<1>3. Visible(chars) \subseteq 1 .. n /\ (k \in Visible(chars) <=> chars[k] # NL)
  BY DEF Visible
<1>4. /\ k \in Breaks(chars) <=> (chars[k] = NL \/ x + 1 = Width)
      /\ k \in Breaks(chars) => (Line(chars, k + 1) = l + 1 /\ Column(chars, k + 1) = 0)
      /\ k \notin Breaks(chars) => (Line(chars, k + 1) = l /\ Column(chars, k + 1) = x + 1)
  BY NextPlace
<1>5. t = write_coloured([screen |-> s, cursor |-> [x |-> x, y |-> y]], chars[k])
  BY DEF CursorAt
<1> HIDE DEF l, x, y, skip
<1>6. IsScreen(put)
  BY <1>1, Put
<1>7. ASSUME ShownTo(s, chars, skip, k - 1) PROVE ShownTo(put, chars, skip, k)
  <2> SUFFICES ASSUME NEW i \in Visible(chars), i <= k, Line(chars, i) >= skip
               PROVE  put[Line(chars, i) - skip][Column(chars, i)] = Byte(chars[i])
    BY DEF ShownTo
  <2>1. CASE i = k
    <3>1. chars[k] # NL
      BY <1>3, <2>1
    <3>2. put[l - skip][x] = Byte(chars[k])
      <4>1. put = [s EXCEPT ![l - skip][x] = Byte(chars[k])]
        BY <3>1
      <4> HIDE DEF put
      <4> QED BY <1>1, <4>1 DEF IsScreen
    <3> HIDE DEF put
    <3>3. Line(chars, k) = l /\ Column(chars, k) = x
      BY DEF l, x
    <3> QED BY <2>1, <3>2, <3>3
  <2>2. CASE i # k
    <3>1. i \in 1 .. k - 1 /\ i \in 1 .. n
      BY <1>3, <2>2
    <3>2. s[Line(chars, i) - skip][Column(chars, i)] = Byte(chars[i])
      BY <1>7, <3>1 DEF ShownTo
    <3>3. /\ Line(chars, i) \in Nat /\ Line(chars, i) <= l /\ Column(chars, i) \in Columns
          /\ (Line(chars, i) # l \/ Column(chars, i) # x)
      BY <1>2, <3>1
    <3>4. Line(chars, i) - skip \in Rows
      BY <1>1, <3>3, ConsoleAssumption DEF Rows
    <3>5. Line(chars, i) - skip # l - skip \/ Column(chars, i) # x
      BY <1>1, <3>3
    <3> QED BY <1>1, <3>2, <3>3, <3>4, <3>5, Put
  <2> QED BY <2>1, <2>2
<1>8. ASSUME ClearBut(s, chars, skip, k - 1) PROVE ClearBut(put, chars, skip, k)
  <2> SUFFICES ASSUME NEW r \in Rows, NEW z \in Columns,
                      \A i \in Visible(chars) :
                          i <= k => ~(Line(chars, i) = skip + r /\ Column(chars, i) = z)
               PROVE  put[r][z] = Blank
    BY DEF ClearBut
  <2>1. s[r][z] = Blank
    <3>1. \A i \in Visible(chars) : i <= k - 1 => i <= k
      BY <1>3
    <3> QED BY <1>8, <3>1 DEF ClearBut
  <2>2. CASE chars[k] = NL
    BY <2>1, <2>2
  <2>3. CASE chars[k] # NL
    <3>1. r # l - skip \/ z # x
      BY <1>1, <1>3, <2>3 DEF l, x, Rows
    <3> QED BY <1>1, <2>1, <3>1, Put
  <2> QED BY <2>2, <2>3
<1>9. /\ k \notin Breaks(chars) => (t.screen = put /\ t.cursor = [x |-> x + 1, y |-> y])
      /\ (k \in Breaks(chars) /\ y > 0) => (t.screen = put /\ t.cursor = [x |-> 0, y |-> y - 1])
      /\ (k \in Breaks(chars) /\ ~(y > 0)) => (t.screen = scroll_down(put) /\ t.cursor = [x |-> 0, y |-> 0])
  <2>1. CASE chars[k] = NL
    <3>1. t = new_line([screen |-> s, cursor |-> [x |-> x, y |-> y]]) /\ put = s
      BY <1>5, <2>1 DEF write_coloured
    <3> QED BY <1>4, <2>1, <3>1 DEF new_line
  <2>2. CASE chars[k] # NL
    <3> DEFINE set == [[screen |-> s, cursor |-> [x |-> x, y |-> y]]
                         EXCEPT !.screen[l - skip][x] = Byte(chars[k]), !.cursor.x = @ + 1]
    <3>1. put = [s EXCEPT ![l - skip][x] = Byte(chars[k])]
      BY <2>2
    <3> HIDE DEF put
    <3>2. set.screen = put /\ set.cursor = [x |-> x + 1, y |-> y] /\ DOMAIN set = {"screen", "cursor"}
      BY <1>1, <3>1, SetCell
    <3>3. t = IF set.cursor.x >= Width THEN new_line(set) ELSE set
      BY <1>1, <1>5, <2>2, Zenon DEF write_coloured
    <3> HIDE DEF set
    <3>4. set.cursor.x = x + 1 /\ set.cursor.y = y /\ (x + 1 >= Width <=> x + 1 = Width)
      BY <1>1, <3>2
    <3>5. CASE x + 1 = Width
      <4>1. t = new_line(set) /\ k \in Breaks(chars)
        BY <1>4, <3>3, <3>4, <3>5
      <4> QED BY <3>2, <3>4, <4>1 DEF new_line
    <3>6. CASE x + 1 # Width
      <4>1. t = set /\ k \notin Breaks(chars)
        BY <1>4, <2>2, <3>3, <3>4, <3>6
      <4> QED BY <3>2, <4>1
    <3> QED BY <3>5, <3>6
  <2> QED BY <2>1, <2>2
<1> HIDE DEF put
<1>10. CASE k \notin Breaks(chars)
  <2>1. CursorAt(chars, k + 1) = [x |-> x + 1, y |-> y]
    BY <1>4, <1>10 DEF CursorAt, y
  <2>2. Top(Line(chars, k + 1)) = skip /\ Top(Line(chars, k)) = skip
    BY <1>4, <1>10 DEF skip, l
  <2> QED BY <1>6, <1>7, <1>8, <1>9, <1>10, <2>1, <2>2
<1>11. CASE k \in Breaks(chars) /\ y > 0
  <2>0. Top(l + 1) = skip /\ CursorY(l + 1) = y - 1
    BY <1>1, <1>11, Lines DEF y, skip
  <2>1. CursorAt(chars, k + 1) = [x |-> 0, y |-> y - 1]
    BY <1>4, <1>11, <2>0 DEF CursorAt
  <2>2. Top(Line(chars, k + 1)) = skip /\ Top(Line(chars, k)) = skip
    BY <1>4, <1>11, <2>0 DEF skip, l
  <2> QED BY <1>6, <1>7, <1>8, <1>9, <1>11, <2>1, <2>2
<1>12. CASE k \in Breaks(chars) /\ ~(y > 0)
  <2>0. Top(l + 1) = skip + 1 /\ CursorY(l + 1) = 0 /\ l = skip + Height - 1
    BY <1>1, <1>12, Lines DEF y, skip
  <2>1. CursorAt(chars, k + 1) = [x |-> 0, y |-> 0]
    BY <1>4, <1>12, <2>0 DEF CursorAt
  <2>2. Top(Line(chars, k + 1)) = skip + 1 /\ Top(Line(chars, k)) = skip
    BY <1>4, <1>12, <2>0 DEF skip, l
  <2>3. \A i \in 1 .. k : Line(chars, i) <= skip + Height - 1
    BY <1>2, <2>0
  <2>4. /\ IsScreen(scroll_down(put))
        /\ ShownTo(put, chars, skip, k) => ShownTo(scroll_down(put), chars, skip + 1, k)
        /\ ClearBut(put, chars, skip, k) => ClearBut(scroll_down(put), chars, skip + 1, k)
    BY <1>1, <1>6, <2>3, Scrolled
  <2> QED BY <1>7, <1>8, <1>9, <1>12, <2>1, <2>2, <2>4
<1> QED BY <1>10, <1>11, <1>12

----------------------------------------------------------------------------
(* The screen before a panic.                                               *)

\* ShowsFrom in terms of the place after the text.
LEMMA ShowsAll ==
  ASSUME NEW s, NEW chars, NEW n \in Nat, DOMAIN chars = 1 .. n
  PROVE  ShowsFrom(s, chars, Skipped(chars))
           <=> /\ ShownTo(s, chars, Top(Line(chars, n + 1)), n)
               /\ ClearBut(s, chars, Top(Line(chars, n + 1)), n)
<1>1. n + 1 \in 1 .. n + 1
  OBVIOUS
<1>2. Breaks(chars) \subseteq 1 .. n /\ Line(chars, n + 1) \in Nat
  BY <1>1, LayoutTypes
<1>3. {k \in Breaks(chars) : k < n + 1} = Breaks(chars)
  BY <1>2
<1>4. Line(chars, n + 1) = Cardinality(Breaks(chars))
  BY <1>3, Zenon DEF Line
<1>5. Skipped(chars) = Top(Line(chars, n + 1))
  BY <1>2, <1>4, ConsoleAssumption DEF Skipped, Top
<1>6. \A i \in Visible(chars) : i <= n
  BY DEF Visible
<1> DEFINE skip == Skipped(chars)
<1> HIDE DEF skip
<1>7. ShowsFrom(s, chars, skip) <=> ShownTo(s, chars, skip, n) /\ ClearBut(s, chars, skip, n)
  BY <1>6 DEF ShowsFrom, ShownTo, ClearBut
<1> QED BY <1>5, <1>7, Zenon DEF skip

\* What is shown of a text is shown of a longer one.
LEMMA ShownPrefix ==
  ASSUME NEW s, NEW chars, NEW more, NEW n \in Nat, DOMAIN chars = 1 .. n, DOMAIN more = 1 .. n + 1,
         \A i \in 1 .. n : more[i] = chars[i], NEW skip
  PROVE  /\ ShownTo(s, chars, skip, n) => ShownTo(s, more, skip, n)
         /\ ClearBut(s, chars, skip, n) => ClearBut(s, more, skip, n)
<1>1. \A i \in 1 .. n : Line(more, i) = Line(chars, i) /\ Column(more, i) = Column(chars, i)
  <2>1. \A i \in 1 .. n : i \in 1 .. n + 1
    OBVIOUS
  <2> QED BY <2>1, PrefixPlaces
<1>2. /\ \A i \in Visible(chars) : i \in Visible(more) /\ i \in 1 .. n
      /\ \A i \in Visible(more) : i <= n => i \in Visible(chars)
  BY DEF Visible
<1>3. ShownTo(s, chars, skip, n) => ShownTo(s, more, skip, n)
  BY <1>1, <1>2 DEF ShownTo
<1>4. ClearBut(s, chars, skip, n) => ClearBut(s, more, skip, n)
  BY <1>1, <1>2 DEF ClearBut
<1> QED BY <1>3, <1>4

ScreenInv ==
    /\ IsScreen(screen) /\ text \in Seq(Range(text))
    /\ panic = NoPanic => /\ cursor = CursorAt(text, Len(text) + 1)
                          /\ ShowsFrom(screen, text, Skipped(text))

LEMMA ScreenInit == ASSUME Init PROVE ScreenInv
<1>1. /\ screen = [r \in Rows |-> BlankRow] /\ cursor = Start /\ text = <<>>
  BY DEF Init, ConsoleInit
<1>2. IsScreen(screen) /\ text \in Seq(Range(text)) /\ Len(text) = 0 /\ DOMAIN text = 1 .. 0
  BY <1>1 DEF IsScreen, BlankRow
<1>3. /\ Height \in Nat \ {0} /\ Width \in Nat \ {0} /\ 1 \in 1 .. 0 + 1 /\ 0 \in Nat
  BY ConsoleAssumption
<1>4. LineStart(text, 1) = 0 /\ Breaks(text) = {}
  <2>1. LineStart(text, 1) \in 0 .. 1 - 1 /\ Breaks(text) \subseteq 1 .. 0
    BY <1>2, <1>3, LayoutTypes
  <2> QED BY <2>1
<1>5. Line(text, 1) = 0
  <2>1. {k \in Breaks(text) : k < 1} = {}
    BY <1>4
  <2> QED BY <2>1, FS_EmptySet, Zenon DEF Line
<1>6. Column(text, 1) = 0
  <2>1. Column(text, 1) = (1 - 0 - 1) % Width
    BY <1>4, Zenon DEF Column
  <2> QED BY <2>1, <1>3
<1>7. cursor = CursorAt(text, 1) /\ Top(0) = 0
  BY <1>1, <1>3, <1>5, <1>6 DEF Start, CursorAt, CursorY, Top
<1>8. ShownTo(screen, text, 0, 0) /\ ClearBut(screen, text, 0, 0)
  <2>1. Visible(text) = {}
    BY <1>2 DEF Visible
  <2> QED BY <1>1, <2>1 DEF ShownTo, ClearBut, BlankRow
<1>9. ShowsFrom(screen, text, Skipped(text))
  <2>1. 0 + 1 = 1
    OBVIOUS
  <2> QED BY <1>2, <1>3, <1>5, <1>7, <1>8, <2>1, ShowsAll
<1> QED BY <1>2, <1>7, <1>9 DEF ScreenInv

\* A character written through VGA_WRITER.
LEMMA OutVgaStep == ASSUME ScreenInv, panic = NoPanic, OutVga PROVE ScreenInv'
<1> DEFINE n == Len(text)
           c == Head(Head(out).chars)
           more == Append(text, c)
           t == write_coloured([screen |-> screen, cursor |-> cursor], c)
<1>1. screen' = t.screen /\ cursor' = t.cursor /\ text' = more /\ panic' = panic
  BY DEF OutVga
<1>2. /\ n \in Nat /\ DOMAIN text = 1 .. n
      /\ DOMAIN more = 1 .. n + 1 /\ Len(more) = n + 1 /\ more[n + 1] = c
      /\ \A i \in 1 .. n : more[i] = text[i]
      /\ more \in Seq(Range(more))
  <2> DEFINE S == Range(text) \cup {c}
  <2> HIDE DEF c
  <2>1. text \in Seq(S)
    BY DEF ScreenInv, Range
  <2>2. /\ more \in Seq(S) /\ Len(more) = n + 1 /\ more[n + 1] = c
        /\ \A i \in 1 .. n : more[i] = text[i]
        /\ DOMAIN text = 1 .. n /\ n \in Nat
    BY <2>1
  <2> HIDE DEF more, S, n
  <2>3. DOMAIN more = 1 .. n + 1
    BY <2>2
  <2>4. more \in Seq(Range(more))
    BY <2>2 DEF Range
  <2> QED BY <2>2, <2>3, <2>4
<1> HIDE DEF n, c, more
<1>3. n + 1 \in 1 .. n + 1 /\ n + 1 \in Nat /\ (n + 1) - 1 = n
  BY <1>2
<1>4. Line(more, n + 1) = Line(text, n + 1) /\ Column(more, n + 1) = Column(text, n + 1)
  BY <1>2, <1>3, PrefixPlaces
<1>5. cursor = CursorAt(more, n + 1)
  BY <1>4 DEF CursorAt, ScreenInv, n
<1>6. /\ ShownTo(screen, more, Top(Line(more, n + 1)), n)
      /\ ClearBut(screen, more, Top(Line(more, n + 1)), n)
  <2>1. ShowsFrom(screen, text, Skipped(text))
    BY DEF ScreenInv
  <2>2. /\ ShownTo(screen, text, Top(Line(text, n + 1)), n)
        /\ ClearBut(screen, text, Top(Line(text, n + 1)), n)
    BY <1>2, <2>1, ShowsAll
  <2> QED BY <1>2, <1>4, <2>2, ShownPrefix
<1>7. t = write_coloured([screen |-> screen, cursor |-> CursorAt(more, n + 1)], more[n + 1])
  BY <1>2, <1>5
<1> HIDE DEF t
<1>8. /\ IsScreen(t.screen) /\ t.cursor = CursorAt(more, (n + 1) + 1)
      /\ ShownTo(t.screen, more, Top(Line(more, (n + 1) + 1)), n + 1)
      /\ ClearBut(t.screen, more, Top(Line(more, (n + 1) + 1)), n + 1)
  <2>1. IsScreen(screen)
    BY DEF ScreenInv
  <2> DEFINE m == n + 1
  <2>2. /\ m \in Nat /\ m \in 1 .. m /\ m - 1 = n /\ DOMAIN more = 1 .. m
        /\ t = write_coloured([screen |-> screen, cursor |-> CursorAt(more, m)], more[m])
        /\ ShownTo(screen, more, Top(Line(more, m)), n)
        /\ ClearBut(screen, more, Top(Line(more, m)), n)
    BY <1>2, <1>3, <1>6, <1>7
  <2> HIDE DEF m
  <2>3. /\ IsScreen(t.screen) /\ t.cursor = CursorAt(more, m + 1)
        /\ ShownTo(screen, more, Top(Line(more, m)), m - 1)
               => ShownTo(t.screen, more, Top(Line(more, m + 1)), m)
        /\ ClearBut(screen, more, Top(Line(more, m)), m - 1)
               => ClearBut(t.screen, more, Top(Line(more, m + 1)), m)
    BY <2>1, <2>2, WriteStep
  <2> QED BY <2>2, <2>3 DEF m
<1>9. ShowsFrom(t.screen, more, Skipped(more))
  BY <1>2, <1>3, <1>8, ShowsAll
<1> QED BY <1>1, <1>2, <1>8, <1>9 DEF ScreenInv

----------------------------------------------------------------------------
(* The panic report.                                                        *)

\* The last k characters that were sent to the serial port are the first of the message.
SerialEnds(k) ==
    /\ k <= Len(serial)
    /\ \A i \in 1 .. k : serial[(Len(serial) - k) + i] = PanicMessage[i]

\* How far panic_fmt is: it has written k characters of the message, all of it to the screen
\* before the first to the serial port.
WrittenTo(k) ==
    /\ panic.left = SubSeq(PanicMessage, k + 1, Len(PanicMessage))
    /\ \/ /\ panic.to = "vga" /\ panic.cursor = CursorAt(PanicMessage, k + 1)
          /\ ShownTo(screen, PanicMessage, 0, k)
       \/ /\ panic.to = "serial"
          /\ ShownTo(screen, PanicMessage, 0, Len(PanicMessage)) /\ SerialEnds(k)

ReportInv ==
    /\ IsScreen(screen) /\ serial \in Seq(Range(serial))
    /\ pc \notin {"panic", "halted"} => panic = NoPanic
    /\ pc = "panic" => panic # NoPanic
    /\ pc = "halted" => /\ regs.rflags = 0
                        /\ panic # NoPanic => PanicDone
    /\ panic # NoPanic => /\ DOMAIN panic = {"left", "cursor", "to"}
                          /\ \E k \in 0 .. Len(PanicMessage) : WrittenTo(k)

\* What is left of the message.
LEMMA Rest ==
  ASSUME NEW k \in 0 .. Len(PanicMessage), NEW n, n = Len(PanicMessage),
         NEW left, left = SubSeq(PanicMessage, k + 1, n)
  PROVE  /\ n \in Nat /\ DOMAIN PanicMessage = 1 .. n
         /\ left = <<>> <=> k = n
         /\ k # n => /\ Head(left) = PanicMessage[k + 1]
                     /\ Tail(left) = SubSeq(PanicMessage, (k + 1) + 1, n)
<1>1. PanicMessage \in Seq(Nat) /\ n \in Nat /\ DOMAIN PanicMessage = 1 .. n
  BY ConsoleAssumption
<1>2. CASE k = n
  <2>1. k + 1 \in Int /\ n \in Int /\ n < k + 1
    BY <1>1, <1>2
  <2>2. left = <<>>
    BY <2>1, SubSeqEmpty
  <2> QED BY <1>1, <1>2, <2>2
<1>3. CASE k # n
  <2> DEFINE m == k + 1
  <2>1. m \in Int /\ m \in 1 .. Len(PanicMessage) /\ n \in m .. Len(PanicMessage) /\ m <= n
    BY <1>1, <1>3
  <2>2. \A i \in m .. n : PanicMessage[i] \in Nat
    BY <1>1, <2>1
  <2> HIDE DEF m
  <2>3. Len(SubSeq(PanicMessage, m, n)) = IF m <= n THEN n - m + 1 ELSE 0
    BY <1>1, <2>1, <2>2, SubSeqProperties
  <2>4. SubSeq(PanicMessage, m, n) # <<>>
    <3> DEFINE q == SubSeq(PanicMessage, m, n)
    <3>1. Len(q) >= 1
      BY <1>1, <2>1, <2>3
    <3> HIDE DEF q
    <3>2. q # <<>>
      BY <3>1
    <3> QED BY <3>2 DEF q
  <2>5. /\ Head(SubSeq(PanicMessage, m, n)) = PanicMessage[m]
        /\ Tail(SubSeq(PanicMessage, m, n)) = SubSeq(PanicMessage, m + 1, n)
    BY <1>1, <2>1, HeadTailOfSubSeq
  <2> QED BY <1>1, <1>3, <2>4, <2>5 DEF m
<1> QED BY <1>2, <1>3

\* The message fits: writing it never scrolls.
LEMMA NoScroll == ASSUME NEW i \in 1 .. Len(PanicMessage) + 1 PROVE Top(Line(PanicMessage, i)) = 0
<1> DEFINE n == Len(PanicMessage)
<1>1. n \in Nat /\ DOMAIN PanicMessage = 1 .. n
  BY ConsoleAssumption
<1>2. IsFiniteSet(Breaks(PanicMessage)) /\ Line(PanicMessage, i) \in Nat
  BY <1>1, LayoutTypes
<1>3. {k \in Breaks(PanicMessage) : k < i} \in SUBSET Breaks(PanicMessage)
  OBVIOUS
<1>4. Line(PanicMessage, i) <= Cardinality(Breaks(PanicMessage))
  BY <1>2, <1>3, FS_Subset, Zenon DEF Line
<1>5. Cardinality(Breaks(PanicMessage)) \in Nat
  BY <1>2, FS_CardinalityType
<1> QED BY <1>2, <1>4, <1>5, ConsoleAssumption DEF Top

LEMMA ReportInit == ASSUME Init PROVE ReportInv
<1>1. serial = <<>> /\ pc = "kmain" /\ panic = NoPanic
  BY DEF Init, ConsoleInit
<1>2. IsScreen(screen)
  BY ScreenInit DEF ScreenInv
<1>3. serial \in Seq(Range(serial))
  BY <1>1
<1> QED BY <1>1, <1>2, <1>3 DEF ReportInv

\* panic_fmt starts at the top left, wherever VGA_WRITER was.
LEMMA PanicsStep == ASSUME ReportInv, Panics PROVE ReportInv'
<1>1. /\ panic' = [left |-> PanicMessage, cursor |-> Start, to |-> "vga"] /\ pc' = "panic"
      /\ UNCHANGED <<screen, serial>>
  BY DEF Panics, PanicBegins
<1>2. panic' # NoPanic /\ DOMAIN panic' = {"left", "cursor", "to"}
  BY <1>1 DEF NoPanic
<1> DEFINE n == Len(PanicMessage)
<1>3. n \in Nat /\ DOMAIN PanicMessage = 1 .. n /\ 0 \in 0 .. n /\ 0 + 1 = 1 /\ 1 \in 1 .. n + 1
  BY ConsoleAssumption
<1>4. PanicMessage = SubSeq(PanicMessage, 0 + 1, n)
  BY ConsoleAssumption
<1>5. Line(PanicMessage, 1) = 0 /\ Column(PanicMessage, 1) = 0
  <2>1. LineStart(PanicMessage, 1) \in 0 .. 1 - 1 /\ Breaks(PanicMessage) \subseteq 1 .. n
    BY <1>3, LayoutTypes
  <2>2. {k \in Breaks(PanicMessage) : k < 1} = {} /\ LineStart(PanicMessage, 1) = 0
    BY <2>1
  <2>3. Line(PanicMessage, 1) = 0
    BY <2>2, FS_EmptySet, Zenon DEF Line
  <2>4. Column(PanicMessage, 1) = (1 - 0 - 1) % Width
    BY <2>2, Zenon DEF Column
  <2> QED BY <2>3, <2>4, ConsoleAssumption
<1>6. Start = CursorAt(PanicMessage, 0 + 1)
  BY <1>3, <1>5, ConsoleAssumption DEF Start, CursorAt, CursorY
<1>7. ShownTo(screen, PanicMessage, 0, 0)
  BY <1>3 DEF ShownTo, Visible
<1>8. WrittenTo(0)'
  BY <1>1, <1>4, <1>6, <1>7 DEF WrittenTo, ShownTo
<1> QED BY <1>1, <1>2, <1>3, <1>8 DEF ReportInv, IsScreen

LEMMA PanicVgaStep == ASSUME ReportInv, pc = "panic", pc' = pc, PanicVga PROVE ReportInv'
<1> DEFINE n == Len(PanicMessage)
           c == Head(panic.left)
           t == write_coloured([screen |-> screen, cursor |-> panic.cursor], c)
<1>1. PICK k \in 0 .. n : WrittenTo(k)
  BY DEF ReportInv
<1>2. /\ panic.to = "vga" /\ panic.left # <<>> /\ screen' = t.screen /\ serial' = serial
      /\ panic' = [panic EXCEPT !.left = Tail(@), !.cursor = t.cursor]
      /\ DOMAIN panic = {"left", "cursor", "to"}
  BY DEF PanicVga, ReportInv
<1>3. /\ panic.left = SubSeq(PanicMessage, k + 1, n) /\ panic.cursor = CursorAt(PanicMessage, k + 1)
      /\ ShownTo(screen, PanicMessage, 0, k)
  BY <1>1, <1>2 DEF WrittenTo
<1> DEFINE m == k + 1
<1>4. /\ k # n /\ n \in Nat /\ DOMAIN PanicMessage = 1 .. n /\ c = PanicMessage[m]
      /\ Tail(panic.left) = SubSeq(PanicMessage, m + 1, n)
  BY <1>2, <1>3, Rest
<1>5. m \in 1 .. n /\ m \in 1 .. n + 1 /\ m + 1 \in 1 .. n + 1 /\ m - 1 = k /\ m \in 0 .. n
  <2>1. n \in Nat /\ k # n /\ k \in 0 .. n
    BY <1>4
  <2> HIDE DEF n
  <2> QED BY <2>1
<1>6. /\ t = write_coloured([screen |-> screen, cursor |-> CursorAt(PanicMessage, m)], PanicMessage[m])
      /\ IsScreen(screen)
  BY <1>3, <1>4 DEF ReportInv
<1>7. DOMAIN panic' = {"left", "cursor", "to"} /\ panic'.to = "vga" /\ panic'.left = Tail(panic.left)
      /\ panic'.cursor = t.cursor
  <2> HIDE DEF t
  <2> QED BY <1>2
<1> HIDE DEF m, t, c, n
<1>8. IsScreen(t.screen) /\ t.cursor = CursorAt(PanicMessage, m + 1)
      /\ (ShownTo(screen, PanicMessage, Top(Line(PanicMessage, m)), m - 1)
            => ShownTo(t.screen, PanicMessage, Top(Line(PanicMessage, m + 1)), m))
  BY <1>4, <1>5, <1>6, WriteStep
<1>9. Top(Line(PanicMessage, m)) = 0 /\ Top(Line(PanicMessage, m + 1)) = 0
  BY <1>5, NoScroll DEF n
<1>10. ShownTo(t.screen, PanicMessage, 0, m)
  BY <1>3, <1>5, <1>8, <1>9
<1>11. WrittenTo(m)'
  BY <1>2, <1>4, <1>7, <1>8, <1>10 DEF WrittenTo, ShownTo, n
<1>12. panic' # NoPanic
  BY <1>7 DEF NoPanic
<1>13. IsScreen(screen')
  BY <1>2, <1>8
<1>14. \E j \in 0 .. Len(PanicMessage) : WrittenTo(j)'
  BY <1>5, <1>11 DEF n
<1>15. serial' \in Seq(Range(serial'))
  BY <1>2 DEF ReportInv
<1> QED BY <1>7, <1>12, <1>13, <1>14, <1>15 DEF ReportInv, IsScreen

LEMMA PanicToSerialStep == ASSUME ReportInv, pc = "panic", pc' = pc, PanicToSerial PROVE ReportInv'
<1> DEFINE n == Len(PanicMessage)
<1>1. PICK k \in 0 .. n : WrittenTo(k)
  BY DEF ReportInv
<1>2. /\ panic.to = "vga" /\ panic.left = <<>> /\ UNCHANGED <<screen, serial>>
      /\ panic' = [panic EXCEPT !.to = "serial", !.left = PanicMessage]
      /\ DOMAIN panic = {"left", "cursor", "to"}
  BY DEF PanicToSerial, ReportInv
<1>3. panic.left = SubSeq(PanicMessage, k + 1, n) /\ ShownTo(screen, PanicMessage, 0, k)
  BY <1>1, <1>2 DEF WrittenTo
<1>4. k = n /\ n \in Nat
  BY <1>2, <1>3, Rest
<1>5. /\ DOMAIN panic' = {"left", "cursor", "to"} /\ panic'.to = "serial"
      /\ panic'.left = PanicMessage
  BY <1>2
<1>6. PanicMessage = SubSeq(PanicMessage, 0 + 1, n) /\ 0 \in 0 .. n
  BY <1>4, ConsoleAssumption
<1>7. SerialEnds(0)'
  <2>1. Len(serial) \in Nat
    BY DEF ReportInv
  <2> QED BY <1>2, <2>1 DEF SerialEnds
<1>8. WrittenTo(0)'
  BY <1>2, <1>3, <1>4, <1>5, <1>6, <1>7 DEF WrittenTo, ShownTo
<1>9. panic' # NoPanic
  BY <1>5 DEF NoPanic
<1> QED BY <1>2, <1>5, <1>6, <1>8, <1>9 DEF ReportInv, IsScreen

LEMMA PanicSerialStep == ASSUME ReportInv, pc = "panic", pc' = pc, PanicSerial PROVE ReportInv'
<1> DEFINE n == Len(PanicMessage)
           c == Head(panic.left)
<1>1. PICK k \in 0 .. n : WrittenTo(k)
  BY DEF ReportInv
<1>2. /\ panic.to = "serial" /\ panic.left # <<>> /\ screen' = screen /\ serial' = Append(serial, c)
      /\ panic' = [panic EXCEPT !.left = Tail(@)]
      /\ DOMAIN panic = {"left", "cursor", "to"}
  BY DEF PanicSerial, ReportInv
<1>3. /\ panic.left = SubSeq(PanicMessage, k + 1, n) /\ SerialEnds(k)
      /\ ShownTo(screen, PanicMessage, 0, n)
  BY <1>1, <1>2 DEF WrittenTo
<1> DEFINE m == k + 1
<1>4. /\ k # n /\ n \in Nat /\ c = PanicMessage[m]
      /\ Tail(panic.left) = SubSeq(PanicMessage, m + 1, n)
  BY <1>2, <1>3, Rest
<1>5. m \in 0 .. n
  BY <1>4
<1>6. /\ DOMAIN panic' = {"left", "cursor", "to"} /\ panic'.to = "serial"
      /\ panic'.left = Tail(panic.left)
  BY <1>2
<1> HIDE DEF c
<1>7. /\ Len(serial') = Len(serial) + 1 /\ Len(serial) \in Nat /\ serial'[Len(serial) + 1] = c
      /\ \A i \in 1 .. Len(serial) : serial'[i] = serial[i]
      /\ serial' \in Seq(Range(serial'))
  <2> DEFINE S == Range(serial) \cup {c}
  <2>1. serial \in Seq(S)
    BY DEF ReportInv, Range
  <2>2. /\ serial' \in Seq(S) /\ Len(serial') = Len(serial) + 1 /\ serial'[Len(serial) + 1] = c
        /\ \A i \in 1 .. Len(serial) : serial'[i] = serial[i]
        /\ Len(serial) \in Nat
    BY <1>2, <2>1
  <2>3. serial' \in Seq(Range(serial'))
    BY <2>2 DEF Range
  <2> QED BY <2>2, <2>3
<1>8. SerialEnds(m)'
  <2>1. k \in Nat /\ k <= Len(serial) /\ \A i \in 1 .. k : serial[(Len(serial) - k) + i] = PanicMessage[i]
    BY <1>3 DEF SerialEnds
  <2>2. ASSUME NEW i \in 1 .. m PROVE serial'[(Len(serial') - m) + i] = PanicMessage[i]
    <3>1. CASE i = m
      <4>1. (Len(serial') - m) + i = Len(serial) + 1
        BY <1>7, <2>1, <3>1
      <4> QED BY <1>4, <1>7, <3>1, <4>1
    <3>2. CASE i # m
      <4>1. /\ i \in 1 .. k /\ (Len(serial') - m) + i = (Len(serial) - k) + i
            /\ (Len(serial) - k) + i \in 1 .. Len(serial)
        BY <1>7, <2>1, <3>2
      <4> QED BY <1>7, <2>1, <4>1
    <3> QED BY <3>1, <3>2
  <2>3. m <= Len(serial')
    BY <1>7, <2>1
  <2> QED BY <2>2, <2>3 DEF SerialEnds
<1>9. WrittenTo(m)'
  BY <1>2, <1>3, <1>4, <1>6, <1>8 DEF WrittenTo, ShownTo
<1>10. panic' # NoPanic
  BY <1>6 DEF NoPanic
<1>11. \E j \in 0 .. Len(PanicMessage) : WrittenTo(j)'
  BY <1>5, <1>9
<1> HIDE DEF m
<1> QED BY <1>2, <1>6, <1>7, <1>10, <1>11 DEF ReportInv, IsScreen

ConsoleInv == ScreenInv /\ ReportInv

\* Before a panic only the screen and the serial port matter.
LEMMA RunningStep ==
  ASSUME ScreenInv', ReportInv, pc \notin {"panic", "halted"}, pc' \notin {"panic", "halted"},
         panic' = panic, serial' = serial \/ \E c : serial' = Append(serial, c)
  PROVE  ConsoleInv'
<1>1. panic = NoPanic /\ serial \in Seq(Range(serial))
  BY DEF ReportInv
<1>2. serial' \in Seq(Range(serial'))
  <2>1. CASE serial' = serial
    BY <1>1, <2>1
  <2>2. ASSUME NEW c, serial' = Append(serial, c) PROVE serial' \in Seq(Range(serial'))
    <3> DEFINE S == Range(serial) \cup {c}
    <3>1. serial \in Seq(S)
      BY <1>1 DEF Range
    <3>2. serial' \in Seq(S)
      BY <2>2, <3>1
    <3> QED BY <3>2 DEF Range
  <2> QED BY <2>1, <2>2
<1>3. IsScreen(screen')
  BY DEF ScreenInv, IsScreen
<1> QED BY <1>1, <1>2, <1>3 DEF ConsoleInv, ReportInv, IsScreen

\* ScreenInv looks at nothing else.
LEMMA ScreenFrame ==
  ASSUME ScreenInv, UNCHANGED <<screen, cursor, text, panic>> PROVE ScreenInv'
  BY DEF ScreenInv, IsScreen, CursorAt, ShowsFrom

LEMMA ConsoleStep == ASSUME CallInv, ConsoleInv, [Next]_vars PROVE ConsoleInv'
<1> USE DEF ConsoleInv
<1>1. CASE UNCHANGED vars \/ Irq
  <2>1. UNCHANGED <<pc, regs, screen, cursor, text, panic, serial>>
    BY <1>1 DEF vars, consoleVars, machine, Irq
  <2>2. ReportInv'
    BY <2>1 DEF ReportInv, WrittenTo, SerialEnds, ShownTo, IsScreen, PanicDone
  <2> QED BY <2>1, <2>2, ScreenFrame
<1>2. CASE \/ RunByPid \/ Syscall \/ AfterCall \/ UsePorts \/ Step \/ HandlerRefusesPrint
           \/ PrintDone \/ HandlerRefusesPages \/ HandlerMaps \/ Sysret
  <2>1. /\ UNCHANGED <<screen, cursor, text, panic, serial>>
        /\ pc \notin {"panic", "halted"} /\ pc' \notin {"panic", "halted"}
    BY <1>2 DEF RunByPid, Syscall, AfterCall, UsePorts, Step, HandlerRefusesPrint, PrintDone,
                HandlerRefusesPages, HandlerMaps, Sysret, consoleVars, Ring3, Calling, Returns
  <2> QED BY <2>1, ScreenFrame, RunningStep
<1>3. CASE HandlerPrints \/ HandlerHalts
  <2>1. /\ UNCHANGED <<screen, cursor, text, panic, serial>>
        /\ pc \notin {"panic", "halted"} /\ pc' \notin {"panic", "halted"}
    BY <1>3 DEF HandlerPrints, HandlerHalts, Calling
  <2> QED BY <2>1, ScreenFrame, RunningStep
<1>4. CASE Writes
  <2>1. pc \in {"print", "halt"} /\ pc' = pc /\ Output /\ panic = NoPanic
    BY <1>4 DEF Writes, ReportInv
  <2>2. CASE OutLock \/ OutUnlock
    <3>1. UNCHANGED <<screen, cursor, text, panic, serial>>
      BY <2>2 DEF OutLock, OutUnlock
    <3> QED BY <2>1, <3>1, ScreenFrame, RunningStep
  <2>3. CASE OutVga
    <3>1. serial' = serial /\ panic' = panic
      BY <2>3 DEF OutVga
    <3> QED BY <2>1, <2>3, <3>1, OutVgaStep, RunningStep
  <2>4. CASE OutSerial
    <3>1. UNCHANGED <<screen, cursor, text, panic>> /\ \E c : serial' = Append(serial, c)
      BY <2>4 DEF OutSerial
    <3> QED BY <2>1, <3>1, ScreenFrame, RunningStep
  <2> QED BY <2>1, <2>2, <2>3, <2>4 DEF Output
<1>5. CASE HandlerPanics \/ Exception \/ PortsRefused
  <2>1. Panics
    BY <1>5 DEF HandlerPanics, Exception, PortsRefused, Faults
  <2>2. UNCHANGED <<screen, text>> /\ panic' # NoPanic
    BY <2>1 DEF Panics, PanicBegins, NoPanic
  <2>3. ScreenInv'
    BY <2>2 DEF ScreenInv, IsScreen
  <2> QED BY <2>1, <2>3, PanicsStep
<1>6. CASE PanicWrites
  <2>1. pc = "panic" /\ pc' = pc /\ PanicOutput
    BY <1>6 DEF PanicWrites
  <2>2. ReportInv'
    BY <2>1, PanicVgaStep, PanicToSerialStep, PanicSerialStep DEF PanicOutput
  <2>3. text' = text /\ panic' # NoPanic
    BY <2>1, <2>2 DEF PanicOutput, PanicVga, PanicToSerial, PanicSerial, ReportInv
  <2>4. ScreenInv'
    BY <2>2, <2>3 DEF ScreenInv, ReportInv, IsScreen
  <2> QED BY <2>2, <2>4
<1>7. CASE HaltDone \/ PanicHalts
  <2>1. /\ UNCHANGED <<screen, cursor, text, panic, serial>> /\ pc' = "halted"
        /\ regs' = [regs EXCEPT !.rflags = 0]
        /\ panic = NoPanic \/ PanicDone
    BY <1>7 DEF HaltDone, PanicHalts, consoleVars, ReportInv
  <2>2. regs'.rflags = 0
    BY <2>1 DEF CallInv, ShapeInv, Registers
  <2>3. ReportInv'
    BY <2>1, <2>2 DEF ReportInv, WrittenTo, SerialEnds, ShownTo, IsScreen, PanicDone
  <2> QED BY <2>1, <2>3, ScreenFrame
<1> QED BY <1>1, <1>2, <1>3, <1>4, <1>5, <1>6, <1>7 DEF Next, Cpu, Handler

THEOREM ConsoleInvariant == Spec => []ConsoleInv
<1>1. Init => ConsoleInv
  BY ScreenInit, ReportInit DEF ConsoleInv
<1>2. CallInv /\ ConsoleInv /\ [Next]_vars => ConsoleInv'
  BY ConsoleStep
<1> QED BY <1>1, <1>2, CallsInvariant, PTL DEF Spec

\* Until a panic, the screen shows the end of all that was written through VGA_WRITER, for a
\* screen of any size and any text (vga.rs write_coloured, new_line, scroll_down).
THEOREM ScreenShows == Spec => []ScreenShowsTail
<1>1. ConsoleInv => ScreenShowsTail
  BY DEF ConsoleInv, ScreenInv, ScreenShowsTail
<1> QED BY ConsoleInvariant, <1>1, PTL

LEMMA Suffix ==
  ASSUME NEW s, NEW t, s \in Seq(Range(s)), t \in Seq(Range(t)), Len(s) <= Len(t),
         \A i \in 1 .. Len(s) : t[(Len(t) - Len(s)) + i] = s[i]
  PROVE  IsSuffix(s, t)
<1> DEFINE m == Len(s)
           n == Len(t)
           r == Reverse(s)
           q == Reverse(t)
<1>1. m \in Nat /\ n \in Nat /\ m <= n
  OBVIOUS
<1>2. r = [i \in 1 .. m |-> s[(m - i) + 1]] /\ q = [i \in 1 .. n |-> t[(n - i) + 1]]
  BY DEF Reverse
<1>3. \A i \in 1 .. m : r[i] = q[i]
  <2> SUFFICES ASSUME NEW i \in 1 .. m PROVE s[(m - i) + 1] = t[(n - i) + 1]
    BY <1>1, <1>2
  <2>1. (m - i) + 1 \in 1 .. m /\ (n - m) + ((m - i) + 1) = (n - i) + 1
    BY <1>1
  <2> QED BY <2>1
<1>4. r \in Seq(Range(s)) /\ Len(r) = m
  <2>1. \A i \in 1 .. m : s[(m - i) + 1] \in Range(s)
    BY <1>1 DEF Range
  <2> QED BY <1>1, <1>2, <2>1
<1>5. q \in Seq(Range(t)) /\ Len(q) = n
  <2>1. \A i \in 1 .. n : t[(n - i) + 1] \in Range(t)
    BY <1>1 DEF Range
  <2> QED BY <1>1, <1>2, <2>1
<1> HIDE DEF m, n, r, q
<1>6. SubSeq(r, 1, m) = SubSeq(q, 1, m)
  BY <1>1, <1>3, <1>4, <1>5
<1> QED BY <1>1, <1>4, <1>5, <1>6 DEF IsSuffix, IsPrefix, r, q

\* When the machine has stopped after a panic, all of the message is on the screen and at the
\* end of the serial output, and interrupts are off, whatever the panic interrupted and
\* whatever was locked (lang.rs panic_fmt).
THEOREM PanicIsLegible == Spec => []PanicLegible
<1>1. ConsoleInv => PanicLegible
  <2> SUFFICES ASSUME ConsoleInv, pc = "halted", panic # NoPanic PROVE PanicShown /\ regs.rflags = 0
    BY DEF PanicLegible
  <2> DEFINE n == Len(PanicMessage)
  <2>1. PICK k \in 0 .. n : WrittenTo(k)
    BY DEF ConsoleInv, ReportInv
  <2>2. regs.rflags = 0 /\ PanicDone /\ serial \in Seq(Range(serial))
    BY DEF ConsoleInv, ReportInv
  <2>3. /\ panic.left = SubSeq(PanicMessage, k + 1, n)
        /\ ShownTo(screen, PanicMessage, 0, n) /\ SerialEnds(k)
    BY <2>1, <2>2 DEF WrittenTo, PanicDone
  <2>4. k = n /\ n \in Nat /\ DOMAIN PanicMessage = 1 .. n
    BY <2>2, <2>3, Rest DEF PanicDone
  <2>5. \A i \in Visible(PanicMessage) :
           screen[Line(PanicMessage, i)][Column(PanicMessage, i)] = Byte(PanicMessage[i])
    <3> SUFFICES ASSUME NEW i \in Visible(PanicMessage)
                 PROVE  screen[Line(PanicMessage, i)][Column(PanicMessage, i)] = Byte(PanicMessage[i])
      OBVIOUS
    <3>1. i \in 1 .. n /\ i \in 1 .. n + 1 /\ i <= n
      BY <2>4 DEF Visible
    <3>2. Line(PanicMessage, i) \in Nat
      BY <2>4, <3>1, LayoutTypes
    <3>3. Line(PanicMessage, i) >= 0 /\ Line(PanicMessage, i) - 0 = Line(PanicMessage, i)
      BY <3>2
    <3> QED BY <2>3, <3>1, <3>3 DEF ShownTo
  <2>6. IsSuffix(PanicMessage, serial)
    <3>1. PanicMessage \in Seq(Range(PanicMessage))
      BY ConsoleAssumption DEF Range
    <3> QED BY <2>2, <2>3, <2>4, <3>1, Suffix DEF SerialEnds
  <2> QED BY <2>2, <2>5, <2>6 DEF PanicShown
<1> QED BY ConsoleInvariant, <1>1, PTL

=============================================================================
