--------------------------- MODULE NpuControlCode ---------------------------
(***************************************************************************)
(* The control code of a workgroup on its way through the compiler, and    *)
(* then at work: the controller runs the lowered program in order, the DMA *)
(* channels of the shim tiles take tasks from their queues and move data   *)
(* concurrently with it.                                                   *)
(*                                                                         *)
(* The compiler's passes are steps that replace the program; source keeps  *)
(* the unrolled program, in which every transfer is followed by its wait,  *)
(* as the order the program must appear to follow.                         *)
(***************************************************************************)
EXTENDS NpuDmaPasses

CONSTANTS Programs,    \* nested programs with their connections: records
                       \* [items, cx]
          ArraySlack   \* transfers an input may run ahead of what precedes it

ASSUME SlackAssumption == ArraySlack \in Nat

S2MM == 0
MM2S == 1

VARIABLES stage,    \* how far the compiler is, then "run" or "rejected"
          prog,     \* the program compiled
          source,   \* its unrolled form
          code,     \* its current form
          pc,       \* the next operation of the controller
          bds,      \* the descriptors of the tiles
          queue,    \* the tasks of each channel not yet started
          active,   \* the descriptor each channel works on
          tokens,   \* completion tokens of each channel not yet taken
          done      \* transfers finished, in order, per connection

vars == <<stage, prog, source, code, pc, bds, queue, active, tokens, done>>
compiler == <<prog, source, code, stage>>
engine == <<bds, queue, active, tokens, done>>

cx == prog.cx
Channels == Tiles \X {S2MM, MM2S} \X {0, 1}
Idle == [op |-> "idle"]

Init ==
  /\ prog \in Programs
  /\ stage = "source"
  /\ source = <<>>
  /\ code = prog.items
  /\ pc = 1
  /\ bds = [t \in Tiles |-> [b \in ValidBdIds |-> Idle]]
  /\ queue = [ch \in Channels |-> <<>>]
  /\ active = [ch \in Channels |-> Idle]
  /\ tokens = [ch \in Channels |-> 0]
  /\ done = [c \in Conns |-> <<>>]

-----------------------------------------------------------------------------
(* The passes, in the order of the pipeline.                               *)

\* Descriptor ids, unrolling and the split into half DMAs; a program that
\* needs more descriptors than there are is rejected.
AssignAndUnroll ==
  LET a == assignNpuDmaBdIds(prog.items, cx.tile)
      flat == controlCodeLoopUnroll(prog.items, a.ids, <<>>, 0)
  IN  /\ stage = "source"
      /\ stage' = IF a.ok THEN "unrolled" ELSE "rejected"
      /\ source' = IF a.ok THEN flat ELSE <<>>
      /\ code' = source'
      /\ UNCHANGED <<prog, pc, engine>>

Pass(from, to, Result) ==
  /\ stage = from
  /\ stage' = to
  /\ code' = Result
  /\ UNCHANGED <<prog, source, pc, engine>>

InsertDmaBdChain == Pass("unrolled", "chained", insertDmaBdChain(cx, code))
FoldDmaWaits ==
  Pass("chained", "folded",
       foldDmaWaitsByBatch(cx, foldDmaWaitsByQueue(cx, code)))
ControlCodeLowering == Pass("folded", "run", controlCodeLowering(cx, code))

-----------------------------------------------------------------------------
(* The controller.                                                         *)

Running(op) == stage = "run" /\ pc <= Len(code) /\ code[pc].op = op
ChannelOf(o) == <<o.tile, o.dir, o.chan>>

WriteBd ==
  /\ Running("write_bd")
  /\ bds' = [bds EXCEPT ![code[pc].tile][code[pc].bd] = code[pc]]
  /\ pc' = pc + 1
  /\ UNCHANGED <<compiler, queue, active, tokens, done>>

PushToQueue ==
  /\ Running("push")
  /\ queue' = [queue EXCEPT ![ChannelOf(code[pc])] = Append(@, code[pc])]
  /\ pc' = pc + 1
  /\ UNCHANGED <<compiler, bds, active, tokens, done>>

\* A sync takes one token of each of its columns.
SyncedChannels(o) ==
  {<<t, o.dir, o.chan>> : t \in o.tile .. (o.tile + o.columns - 1)}

TctSync ==
  /\ Running("sync")
  /\ \A ch \in SyncedChannels(code[pc]) : tokens[ch] > 0
  /\ tokens' = [ch \in Channels |->
                  IF ch \in SyncedChannels(code[pc]) THEN tokens[ch] - 1
                                                     ELSE tokens[ch]]
  /\ pc' = pc + 1
  /\ UNCHANGED <<compiler, bds, queue, active, done>>

-----------------------------------------------------------------------------
(* The shim DMA channels, and the array behind them.                       *)

\* A channel reads the descriptor when it starts on it.
StartTask(ch) ==
  /\ active[ch] = Idle
  /\ queue[ch] # <<>>
  /\ active' = [active EXCEPT ![ch] =
                  [bd |-> bds[ch[1]][Head(queue[ch]).bd],
                   token |-> Head(queue[ch]).token]]
  /\ queue' = [queue EXCEPT ![ch] = Tail(@)]
  /\ UNCHANGED <<compiler, pc, bds, tokens, done>>

\* The transfers of the unrolled program in order, and the ones before x.
Transfers(s) == SelectSeq(s, IsDma)
IndexOf(x) == CHOOSE i \in DOMAIN source : IsDma(source[i]) /\ source[i].x = x
Before(x) == {source[i] : i \in {j \in 1 .. (IndexOf(x) - 1) : IsDma(source[j])}}
IsDone(o) == o.x \in Range(done[o.conn])

\* An output has data once the inputs before it have arrived; an input is
\* accepted while the array has room for what runs ahead.
Ready(d) ==
  IF cx.dir[d.conn] = S2MM
  THEN \A o \in Before(d.x) : cx.dir[o.conn] = MM2S => IsDone(o)
  ELSE Cardinality({o \in Before(d.x) : ~IsDone(o)}) <= ArraySlack

MoveData(ch) ==
  /\ active[ch] # Idle
  /\ LET d == active[ch].bd
     IN  /\ Ready(d)
         /\ done' = [done EXCEPT ![d.conn] = Append(@, d.x)]
         /\ IF d.next_bd = NoBdId
            THEN /\ active' = [active EXCEPT ![ch] = Idle]
                 /\ tokens' = [tokens EXCEPT ![ch] =
                                 @ + (IF active[ch].token THEN 1 ELSE 0)]
            ELSE /\ active' = [active EXCEPT ![ch].bd =
                                 bds[ch[1]][d.next_bd]]
                 /\ UNCHANGED tokens
  /\ UNCHANGED <<compiler, pc, bds, queue>>

Finished == stage = "run" /\ pc > Len(code)

\* The workgroup is over, or there is nothing to run.
Terminated ==
  /\ Finished \/ stage = "rejected"
  /\ UNCHANGED vars

Compile ==
  AssignAndUnroll \/ InsertDmaBdChain \/ FoldDmaWaits \/ ControlCodeLowering
Controller == WriteBd \/ PushToQueue \/ TctSync
Engine(ch) == StartTask(ch) \/ MoveData(ch)

Next == Compile \/ Controller \/ Terminated \/ \E ch \in Channels : Engine(ch)

\* The controller and every DMA channel keep working once the code runs.
Spec ==
  /\ Init /\ [][Next]_vars
  /\ WF_vars(Controller)
  /\ \A ch \in Channels : WF_vars(Engine(ch))

-----------------------------------------------------------------------------
TransfersOf(c) ==
  LET own == SelectSeq(source, LAMBDA o : IsDma(o) /\ o.conn = c)
  IN  [i \in DOMAIN own |-> own[i].x]

\* Every channel works on the next transfer of a connection it serves: each
\* transfer is done once and in program order, and no descriptor is rewritten
\* while a channel still has to read it, although the passes erase and delay
\* the waits that kept the program sequential.
TransfersInOrder ==
  \A ch \in Channels :
    active[ch] # Idle =>
      /\ active[ch].bd # Idle
      /\ \E c \in Conns :
           /\ ch = <<cx.tile[c], cx.dir[c], cx.chan[c]>>
           /\ Len(done[c]) < Len(TransfersOf(c))
           /\ active[ch].bd.x = TransfersOf(c)[Len(done[c]) + 1]

\* When the control code ends, every transfer is done and every token taken:
\* chaining and folding leave enough waits, and none is left over for the
\* next execution of the code.
EndWaitsForAll ==
  Finished => /\ \A c \in Conns : done[c] = TransfersOf(c)
              /\ \A ch \in Channels : tokens[ch] = 0

\* The folded code never pushes more tasks to a channel than its queue holds.
QueueWithinLimit ==
  \A ch \in Channels :
    Len(queue[ch]) + (IF active[ch] = Idle THEN 0 ELSE 1) <= MaxQueueSize

\* Code that runs ends: no wait that chaining and folding keep stands before
\* the push of a transfer it depends on, its own or, for an output, that of an
\* input before it.
Completes == (stage = "run") ~> Finished

\* The position of the push that starts the transfer of the DMA at i.
PushAt(i) ==
  CHOOSE j \in i .. Len(code) :
    /\ IsDma(code[j]) /\ code[j].conn = code[i].conn
    /\ code[j].next_bd = NoBdId
    /\ \A k \in i .. (j - 1) :
         IsDma(code[k]) /\ code[k].conn = code[i].conn
           => code[k].next_bd # NoBdId

\* No chain straddles the DMA of another connection's packet flow: what
\* stands before it is pushed before it, and so packet flows, which share
\* arbiters, are pushed in program order.
PacketOrder ==
  stage \in {"chained", "folded"} =>
    \A i, j \in DOMAIN code :
      /\ i < j
      /\ IsDma(code[i]) /\ IsDma(code[j])
      /\ code[j].conn \in cx.packet \ {code[i].conn}
      => PushAt(i) < j

\* What follows a barrier starts when everything before it is done.
BarrierSeparates ==
  \A ch \in Channels :
    active[ch] # Idle /\ active[ch].bd # Idle =>
      LET i == IndexOf(active[ch].bd.x)
      IN  \A b \in 1 .. i, j \in 1 .. i :
            j < b /\ source[b].op = "barrier" /\ IsDma(source[j])
              => IsDone(source[j])
=============================================================================
