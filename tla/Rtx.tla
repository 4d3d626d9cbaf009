-------------------------------- MODULE Rtx --------------------------------
(***************************************************************************)
(* The RTX kernel of src/os: processes of fixed priority that exchange     *)
(* mail in blocks of memory.  The calls are traps with interrupts masked;  *)
(* a call that blocks switches to the next process in the middle of its    *)
(* loop and goes on there when it is chosen again.  The timer and the UART *)
(* have an i-process each, which runs to its end on top of the interrupted *)
(* process.                                                                *)
(*                                                                         *)
(* rtx.c has the trap of set_process_priority commented out, so priorities *)
(* do not change.  A process uses a block only while it has it.            *)
(***************************************************************************)
EXTENDS Integers, Sequences, FiniteSets, SequencesExt

CONSTANTS
    Process,  \* the processes but null_process and the i-processes
    Null,     \* null_process, the only one at LOWEST
    Timer,    \* timer_i_process
    Uart,     \* uart_i_process
    Decoder,  \* keyboard_decoder_process, where typed characters go
    priority, \* priority[p] of every process
    LOWEST,
    Block,    \* the memory blocks, numbered
    Delay,    \* delays of delayed_send, in ticks
    MaxTime   \* bound: timer ticks

Pid == Process \cup {Null}

ASSUME RtxAssumption ==
    /\ LOWEST \in Nat /\ MaxTime \in Nat
    /\ IsFiniteSet(Process)
    /\ Null \notin Process /\ Decoder \in Process
    /\ {Timer, Uart} \cap Pid = {} /\ Timer # Uart
    /\ priority \in [Pid -> 0 .. LOWEST]
    /\ priority[Null] = LOWEST /\ \A p \in Process : priority[p] < LOWEST
    /\ Block \subseteq Nat /\ IsFiniteSet(Block)
    /\ Delay \subseteq Nat

VARIABLES
    k,    \* the kernel: see Start
    held, \* held[p]: the blocks process p was given
    now   \* currentTime of the timer i-process

vars == <<k, held, now>>

BLOCKED_MEMORY  == LOWEST + 1
BLOCKED_MESSAGE == LOWEST + 2

----------------------------------------------------------------------------
(* ProcessQueue.c and scheduler.c, as functions of the kernel's state.     *)

\* append_process: the queue follows from the state.
QueueOf(s, p) ==
    CASE s.st[p] = "memory"  -> BLOCKED_MEMORY
      [] s.st[p] = "message" -> BLOCKED_MESSAGE
      [] OTHER               -> priority[p]
append_process(s, p) == [s EXCEPT !.q[QueueOf(s, p)] = Append(@, p)]

\* grab_pcb_from_single_queue
Taken(s, i, p) ==
    LET at == CHOOSE j \in DOMAIN s.q[i] : s.q[i][j] = p
    IN  [s EXCEPT !.q[i] = RemoveAt(@, at)]

Nonempty(s) == {i \in 0 .. LOWEST : s.q[i] # <<>>}
Least(S) == CHOOSE i \in S : \A j \in S : i <= j

next_priority(s) == IF Nonempty(s) = {} THEN LOWEST ELSE Least(Nonempty(s))

\* next_ready_process and context_switch
Dispatched(s) ==
    LET i == Least(Nonempty(s))
        p == Head(s.q[i])
    IN  [s EXCEPT !.q[i] = Tail(@), !.run = p, !.st[p] = "running"]

process_switch(s) == Dispatched(append_process(s, s.run))

process_switch_if_there_is_a_higher_priority_process(s) ==
    IF next_priority(s) < priority[s.run]
    THEN process_switch([s EXCEPT !.st[s.run] = "ready"]) ELSE s

\* The running process blocks in the loop of its call.
Blocks(s, state, call) ==
    process_switch([s EXCEPT !.st[s.run] = state, !.call[s.run] = call])

Readied(s, p) == append_process([s EXCEPT !.st[p] = "ready"], p)

\* next_blocked_memory_process: the first of the highest priority.
next_blocked_memory_process(s) ==
    LET w   == s.q[BLOCKED_MEMORY]
        top == Least({priority[w[i]] : i \in DOMAIN w})
    IN  w[Least({i \in DOMAIN w : priority[w[i]] = top})]

\* Mutant: the waiting process is told only when there was no block left.
FreedQuietly(s, b) ==
    LET f == [s EXCEPT !.free = @ \cup {b}]
    IN  IF f.q[BLOCKED_MEMORY] = <<>> \/ s.free # {} THEN f
        ELSE LET p == next_blocked_memory_process(f)
             IN  Readied(Taken(f, BLOCKED_MEMORY, p), p)

\* kernel_release_memory_block, but for the switch at its end.
Freed(s, b) ==
    LET f == [s EXCEPT !.free = @ \cup {b}]
    IN  IF f.q[BLOCKED_MEMORY] = <<>> THEN f
        ELSE LET p == next_blocked_memory_process(f)
             IN  Readied(Taken(f, BLOCKED_MEMORY, p), p)

Letter(b, to, delay) == [b |-> b, to |-> to, delay |-> delay]

\* Mutant: the receiver stays in the queue it was found in.
DeliveredTwice(s, p, m) ==
    LET put == [s EXCEPT !.mail[p] = Append(@, m)]
    IN  IF p \in Pid /\ s.st[p] = "message" THEN Readied(put, p) ELSE put

\* Mailbox_putMailIn, and message_receiver: a process that waits for mail
\* leaves its queue.
Delivered(s, p, m) ==
    LET put == [s EXCEPT !.mail[p] = Append(@, m)]
    IN  IF p \in Pid /\ s.st[p] = "message"
        THEN Readied(Taken(put, BLOCKED_MESSAGE, p), p) ELSE put

----------------------------------------------------------------------------
(* Start.  run: the running process; st and q: states and queues; call:    *)
(* the loop a process is in; mail: the mailboxes; delayed: the queue       *)
(* delay_send_queue, with m_firingTime.                                    *)

Start ==
    Dispatched(
        [run     |-> Null,
         st      |-> [p \in Pid |-> "ready"],
         q       |-> [i \in 0 .. BLOCKED_MESSAGE |-> SetToSeq({p \in Pid : i = priority[p]})],
         call    |-> [p \in Pid |-> "none"],
         mail    |-> [p \in Pid \cup {Timer, Uart} |-> <<>>],
         delayed |-> <<>>,
         free    |-> Block])

Init ==
    /\ k = Start
    /\ held = [p \in Pid |-> {}]
    /\ now = 0

----------------------------------------------------------------------------
(* The calls of the running process.                                       *)

\* The running process is in none of the loops, or in this one.
Calls(p, call) == p = k.run /\ p # Null /\ k.call[p] \in {"none", call}

kernel_request_memory_block(p) ==
    /\ Calls(p, "request")
    /\ IF k.free = {}
       THEN /\ k' = Blocks(k, "memory", "request")
            /\ UNCHANGED held
       ELSE LET b == Least(k.free)
            IN  /\ k' = [k EXCEPT !.free = @ \ {b}, !.call[p] = "none"]
                /\ held' = [held EXCEPT ![p] = @ \cup {b}]
    /\ UNCHANGED now

kernel_release_memory_block(p, b) ==
    /\ Calls(p, "none")
    /\ b \in held[p]
    /\ k' = process_switch_if_there_is_a_higher_priority_process(Freed(k, b))
    /\ held' = [held EXCEPT ![p] = @ \ {b}]
    /\ UNCHANGED now

\* Only a receiver that waited makes the sender look for another process.
kernel_send_message(p, to, b) ==
    LET sent == Delivered(k, to, Letter(b, to, 0))
        woke == to \in Pid /\ k.st[to] = "message"
    IN  /\ Calls(p, "none")
        /\ b \in held[p]
        /\ k' = IF woke THEN process_switch_if_there_is_a_higher_priority_process(sent) ELSE sent
        /\ held' = [held EXCEPT ![p] = @ \ {b}]
        /\ UNCHANGED now

kernel_delayed_send(p, to, b, delay) ==
    /\ Calls(p, "none")
    /\ b \in held[p]
    /\ k' = Delivered(k, Timer, Letter(b, to, delay))
    /\ held' = [held EXCEPT ![p] = @ \ {b}]
    /\ UNCHANGED now

kernel_receive_message(p) ==
    /\ Calls(p, "receive")
    /\ IF k.mail[p] = <<>>
       THEN /\ k' = Blocks(k, "message", "receive")
            /\ UNCHANGED held
       ELSE /\ k' = [k EXCEPT !.mail[p] = Tail(@), !.call[p] = "none"]
            /\ held' = [held EXCEPT ![p] = @ \cup {Head(k.mail[p]).b}]
    /\ UNCHANGED now

\* null_process does nothing else.
kernel_release_processor(p) ==
    /\ p = k.run /\ k.call[p] = "none"
    /\ k' = process_switch([k EXCEPT !.st[p] = "ready"])
    /\ UNCHANGED <<held, now>>

----------------------------------------------------------------------------
(* The interrupts.  They come while a process is outside of its calls.     *)

\* Mutant: the queue is kept in the order of arrival.
Mailbox_append(box, m) == Append(box, m)

\* How far a walk goes that stops at the first mail that fires after t.
Leading(box, t) ==
    CHOOSE n \in 0 .. Len(box) :
        /\ \A i \in 1 .. n : box[i].fire <= t
        /\ n < Len(box) => box[n + 1].fire > t

\* Behind those that fire at the same time.
Mailbox_insertMailByTime(box, m) ==
    LET n == Leading(box, m.fire)
    IN  SubSeq(box, 1, n) \o <<m>> \o SubSeq(box, n + 1, Len(box))

\* The loop that takes in the letters that came until t.
TakenIn(box, letters, t) ==
    LET upTo[i \in 0 .. Len(letters)] ==
          IF i = 0 THEN box
          ELSE Mailbox_insertMailByTime(upTo[i - 1],
                 [b |-> letters[i].b, to |-> letters[i].to, fire |-> t + letters[i].delay])
    IN  upTo[Len(letters)]

\* The loop that sends the first n of the delayed mail.
Fired(s, box, n) ==
    LET upTo[i \in 0 .. n] ==
          IF i = 0 THEN s ELSE Delivered(upTo[i - 1], box[i].to, Letter(box[i].b, box[i].to, 0))
    IN  upTo[n]

\* timer_i_process: takes its mail in, then sends what is due, from the front.
timer_i_process(s, t) ==
    LET all == TakenIn(s.delayed, s.mail[Timer], t)
        due == Leading(all, t)
    IN  Fired([s EXCEPT !.mail[Timer] = <<>>, !.delayed = SubSeq(all, due + 1, Len(all))], all, due)

\* uart_i_process: a typed character is lost when there is no block for it; a
\* block that was sent to be displayed is freed.
uart_i_process(s) ==
    {IF s.free = {} THEN s
     ELSE LET b == Least(s.free)
          IN  Delivered([s EXCEPT !.free = @ \ {b}], Decoder, Letter(b, Decoder, 0)),
     IF s.mail[Uart] = <<>> THEN s
     ELSE Freed([s EXCEPT !.mail[Uart] = Tail(@)], Head(s.mail[Uart]).b)}

Interruptible == k.call[k.run] = "none"

c_timer_handler ==
    /\ Interruptible /\ now < MaxTime
    /\ now' = now + 1
    /\ k' = process_switch_if_there_is_a_higher_priority_process(timer_i_process(k, now + 1))
    /\ UNCHANGED held

c_serial_handler ==
    /\ Interruptible
    /\ \E s \in uart_i_process(k) :
           k' = process_switch_if_there_is_a_higher_priority_process(s)
    /\ UNCHANGED <<held, now>>

----------------------------------------------------------------------------
Next ==
    \/ \E p \in Process :
          \/ kernel_request_memory_block(p)
          \/ kernel_receive_message(p)
          \/ \E b \in Block :
                \/ kernel_release_memory_block(p, b)
                \/ \E to \in Process \cup {Uart} : kernel_send_message(p, to, b)
                \/ \E to \in Process, delay \in Delay : kernel_delayed_send(p, to, b, delay)
    \/ \E p \in Pid : kernel_release_processor(p)
    \/ c_timer_handler
    \/ c_serial_handler

Spec == Init /\ [][Next]_vars

----------------------------------------------------------------------------
(* Properties.                                                             *)

\* Every process is in one place: running, or once in the queue of its state
\* and priority.  Nothing of a higher priority than the running process is
\* ready, whoever sent, freed or fired last.
ReadyQueuesRight ==
    /\ \A p \in Pid : {i \in DOMAIN k.q : p \in Range(k.q[i])} =
                        IF p = k.run THEN {} ELSE {QueueOf(k, p)}
    /\ \A i \in DOMAIN k.q : IsInjective(k.q[i])
    /\ next_priority(k) >= priority[k.run]

\* While processes wait for memory, there is one about to take each free block.
NoIdleBlock ==
    k.q[BLOCKED_MEMORY] # <<>> =>
        Cardinality(k.free) <=
            Cardinality({p \in Process : k.call[p] = "request" /\ k.st[p] \in {"ready", "running"}})

\* No delayed mail is left behind when its time has come.
DelayedMailOnTime == \A i \in DOMAIN k.delayed : k.delayed[i].fire > now
=============================================================================
