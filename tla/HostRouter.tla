------------------------------ MODULE HostRouter ------------------------------
(***************************************************************************)
(* The host's way to a register: Axi4LiteDriver, the address router of     *)
(* tpe_top.sv, and the channel FSMs of the blocks behind it.  The router   *)
(* latches nothing: it decodes the address pins as they are, for the       *)
(* response as for the request.                                            *)
(*                                                                         *)
(* A step is one rising edge.  The driver reads the pins as they were      *)
(* before the edge and sets its own after it.                              *)
(***************************************************************************)
EXTENDS Naturals

CONSTANTS
  HostBlocks,     (* the values of address bits [15:12] the host uses      *)
  HostRegisters,  (* the registers within a block                          *)
  TraceRdata      (* the register of the debug block a read of which pops  *)

ASSUME RouterAssumption == HostBlocks \subseteq 0..15 /\ TraceRdata \in HostRegisters

HostAddrs == [block : HostBlocks \union {0}, reg : HostRegisters]

(* The sink of stray accesses has the same handshakes as a block.          *)
Slaves == {"cp", "pmu", "debug", "none"}

VARIABLES
  phase,              (* what the driver waits for                         *)
  awvalid, awaddr, bready, arvalid, araddr, rready,    (* its pins         *)
  wchan, rchan, latched,  (* of every slave: channel FSMs, read address    *)
  word,               (* what read() returned                              *)
  op,                 (* history: the kind of the last access              *)
  taken               (* history: how often each slave took it             *)

pinVars == <<awvalid, awaddr, bready, arvalid, araddr, rready>>
slaveVars == <<wchan, rchan, latched>>
routerVars == <<phase, pinVars, slaveVars, word, op, taken>>

NoWord == <<"none", TraceRdata>>

RouterInit ==
  /\ phase = "idle"
  /\ awvalid = FALSE /\ bready = FALSE /\ arvalid = FALSE /\ rready = FALSE
  /\ awaddr = [block |-> 0, reg |-> TraceRdata] /\ araddr = awaddr
  /\ wchan = [s \in Slaves |-> "W_IDLE"]
  /\ rchan = [s \in Slaves |-> "R_IDLE"]
  /\ latched = [s \in Slaves |-> TraceRdata]
  /\ word = NoWord /\ op = "none" /\ taken = [s \in Slaves |-> 0]
-----------------------------------------------------------------------------
(***************************************************************************)
(* The router.                                                             *)
(***************************************************************************)
(* wr_is_*, rd_is_*: the block behind the address on the pins.             *)
Decode(addr) ==
  IF addr.block = 0 THEN "cp"               (* BlkCp *)
  ELSE IF addr.block = 3 THEN "pmu"         (* BlkPmu *)
  ELSE IF addr.block = 4 THEN "debug"       (* BlkDebug *)
  ELSE "none"

(* Broken variant for the mutation runs: valid is not gated by the address.*)
SelectsAll(addr, s) == TRUE

(* Broken variant for the mutation runs: the sink is not there.             *)
SelectsBlock(addr, s) == s # "none" /\ Decode(addr) = s

(* The gating of valid at each instance.                                   *)
Selects(addr, s) == Decode(addr) = s

(* The muxes of ready and valid back to the host.                          *)
WriteReady == wchan[Decode(awaddr)] = "W_IDLE"
WriteDone  == wchan[Decode(awaddr)] = "W_RESP"
ReadReady  == rchan[Decode(araddr)] = "R_IDLE"
ReadDone   == rchan[Decode(araddr)] = "R_DATA"

(* The mux of the data, 0 from the sink.                                   *)
DataFrom(s) == IF s = "none" THEN NoWord ELSE <<s, latched[s]>>
-----------------------------------------------------------------------------
(***************************************************************************)
(* The channel FSMs.                                                       *)
(***************************************************************************)
TakesWrite(s) == wchan[s] = "W_IDLE" /\ awvalid /\ Selects(awaddr, s)
TakesRead(s)  == rchan[s] = "R_IDLE" /\ arvalid /\ Selects(araddr, s)

WriteChannel(s) ==
  IF TakesWrite(s) THEN "W_RESP"
  ELSE IF wchan[s] = "W_RESP" /\ bready THEN "W_IDLE"
  ELSE wchan[s]

(* Only the debug block has a state in which its trace is being popped.    *)
ReadChannel(s) ==
  IF TakesRead(s)
    THEN IF s = "debug" /\ araddr.reg = TraceRdata THEN "R_POP_WAIT" ELSE "R_DATA"
  ELSE IF rchan[s] = "R_POP_WAIT" THEN "R_DATA"
  ELSE IF rchan[s] = "R_DATA" /\ rready THEN "R_IDLE"
  ELSE rchan[s]

SlavesEdge ==
  /\ wchan' = [s \in Slaves |-> WriteChannel(s)]
  /\ rchan' = [s \in Slaves |-> ReadChannel(s)]
  /\ latched' = [s \in Slaves |-> IF TakesRead(s) THEN araddr.reg ELSE latched[s]]

CountTaken ==
  taken' = [s \in Slaves |-> taken[s] + (IF TakesWrite(s) \/ TakesRead(s) THEN 1 ELSE 0)]
-----------------------------------------------------------------------------
(***************************************************************************)
(* The driver.  The last edge a call awaits is the first of "idle".        *)
(***************************************************************************)
HostRests == phase = "idle" /\ UNCHANGED <<phase, pinVars, word, op, taken>>

BeginWrite(a) ==
  /\ phase = "idle" /\ phase' = "aw" /\ op' = "write"
  /\ awvalid' = TRUE /\ awaddr' = a /\ bready' = TRUE
  /\ taken' = [s \in Slaves |-> 0]
  /\ UNCHANGED <<arvalid, araddr, rready, word>>

BeginRead(a) ==
  /\ phase = "idle" /\ phase' = "ar" /\ op' = "read"
  /\ arvalid' = TRUE /\ araddr' = a /\ rready' = TRUE
  /\ taken' = [s \in Slaves |-> 0]
  /\ UNCHANGED <<awvalid, awaddr, bready, word>>

(* Broken variant for the mutation runs: write() does not wait for bvalid. *)
AwaitWriteReadyOnly ==
  /\ phase = "aw"
  /\ phase' = IF WriteReady THEN "idle" ELSE "aw"
  /\ awvalid' = ~WriteReady /\ bready' = ~WriteReady
  /\ CountTaken
  /\ UNCHANGED <<awaddr, arvalid, araddr, rready, word, op>>

AwaitWriteReady ==
  /\ phase = "aw"
  /\ phase' = IF WriteReady THEN "b" ELSE "aw"
  /\ awvalid' = ~WriteReady
  /\ CountTaken
  /\ UNCHANGED <<awaddr, bready, arvalid, araddr, rready, word, op>>

AwaitWriteResponse ==
  /\ phase = "b"
  /\ phase' = IF WriteDone THEN "idle" ELSE "b"
  /\ bready' = ~WriteDone
  /\ CountTaken
  /\ UNCHANGED <<awvalid, awaddr, arvalid, araddr, rready, word, op>>

AwaitReadReady ==
  /\ phase = "ar"
  /\ phase' = IF ReadReady THEN "r" ELSE "ar"
  /\ arvalid' = ~ReadReady
  /\ CountTaken
  /\ UNCHANGED <<awvalid, awaddr, bready, araddr, rready, word, op>>

AwaitReadData ==
  /\ phase = "r"
  /\ phase' = IF ReadDone THEN "idle" ELSE "r"
  /\ rready' = ~ReadDone
  /\ word' = IF ReadDone THEN DataFrom(Decode(araddr)) ELSE word
  /\ CountTaken
  /\ UNCHANGED <<awvalid, awaddr, bready, arvalid, araddr, op>>

RouterEdge ==
  /\ SlavesEdge
  /\ \/ HostRests
     \/ \E a \in HostAddrs : BeginWrite(a) \/ BeginRead(a)
     \/ AwaitWriteReady \/ AwaitWriteResponse
     \/ AwaitReadReady \/ AwaitReadData

RouterSpec == RouterInit /\ [][RouterEdge]_routerVars /\ WF_routerVars(RouterEdge)
-----------------------------------------------------------------------------
(* Registers, pins and history have their types.                           *)
RouterTypeOK ==
  /\ phase \in {"idle", "aw", "b", "ar", "r"} /\ op \in {"none", "write", "read"}
  /\ awvalid \in BOOLEAN /\ bready \in BOOLEAN
  /\ arvalid \in BOOLEAN /\ rready \in BOOLEAN
  /\ awaddr \in HostAddrs /\ araddr \in HostAddrs
  /\ wchan \in [Slaves -> {"W_IDLE", "W_RESP"}]
  /\ rchan \in [Slaves -> {"R_IDLE", "R_POP_WAIT", "R_DATA"}]
  /\ latched \in [Slaves -> HostRegisters]
  /\ word \in Slaves \X HostRegisters
  /\ taken \in [Slaves -> Nat]

Target == Decode(IF op = "write" THEN awaddr ELSE araddr)

(* An access reaches the block its address names and no other, and is      *)
(* taken there once: a write is not done twice, a read of the trace pops   *)
(* one entry, however long the driver holds its request.                   *)
TakenOnce ==
  /\ \A s \in Slaves : taken[s] <= IF s = Target THEN 1 ELSE 0
  /\ phase = "idle" /\ op # "none" => taken[Target] = 1

(* Whenever the driver returns, no block is left with a response it has    *)
(* not delivered: the address may change, and the live decode with it.     *)
NoResponseLeft ==
  phase = "idle" => \A s \in Slaves : wchan[s] = "W_IDLE" /\ rchan[s] = "R_IDLE"

(* What read() returns is the register asked for of the block asked.       *)
DataOfTarget ==
  phase = "idle" /\ op = "read" /\ Target # "none" => word = <<Target, araddr.reg>>

(* Every access is answered by what it names, once.                        *)
AnsweredOnce == TakenOnce /\ DataOfTarget

(* Every access returns, the stray one too, which the sink absorbs         *)
(* "instead of letting the bus hang" (tpe_top.sv:122-124).                     *)
AccessReturns == phase # "idle" ~> phase = "idle"
=============================================================================
