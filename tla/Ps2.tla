-------------------------------- MODULE Ps2 ---------------------------------
(***************************************************************************)
(* Mouse and keyboard behind the PS/2 controller: Mouse::init and          *)
(* process_packet (src/drivers/mouse.rs), the scancode queue               *)
(* (src/drivers/keyboard.rs) and the two interrupt handlers                *)
(* (src/arch/interrupts.rs).  Both devices share one output buffer, and no *)
(* reader asks whose byte it holds.  init polls it with interrupts         *)
(* disabled: but its first command turns on the reports, keys may be       *)
(* pressed at any time, and every byte it reads leaves the interrupt of    *)
(* its device pending, which is delivered when start_schedule enables      *)
(* interrupts, with nothing to read or with the other device's byte.       *)
(*                                                                         *)
(* The controller, the mouse and the keyboard are external.                *)
(***************************************************************************)
EXTENDS Integers, Sequences

CONSTANTS
    Kinds,      \* what may be plugged in: "stuck", "absent", "standard", "wheel", "five"
    Reports,    \* the reports a mouse may send: flags, two moves and a fourth byte
    Keys,       \* the scancodes of the keys that are pressed, in order
    MaxInputs,  \* bound on the reports and keys once init has returned
    MaxTries,   \* PORT_READ_TRY_TIMES, for the bytes that are no answer
    SCANCODE_QUEUE_SIZE

ASSUME KeysAssumption ==
    Keys \in Seq(Int) /\ MaxInputs \in 0 .. Len(Keys) /\ SCANCODE_QUEUE_SIZE \in Nat

VARIABLES
    kind,       \* what is plugged in
    streaming,  \* the mouse sends reports
    id,         \* the mode of the mouse: 0, 3 (wheel) or 4 (five buttons)
    rates,      \* the sample rates set last
    received,   \* the command byte the mouse has still to answer, or 0
    to_send,    \* the bytes each device has still to hand to the controller
    out,        \* the controller's output buffer
    last,       \* the byte read last, which an empty buffer reads as
    latched,    \* the devices whose interrupt is pending
    enabled,    \* interrupts are enabled
    pc,         \* the command of init that is due
    stage,      \* its step, and "ok" or "failed" once init has returned
    tries,
    mouse_type,
    current_packet_index,
    current_state,
    delivered,  \* the states that the complete handler was called with
    queue,      \* SCANCODE_QUEUE
    taken,      \* the scancodes clients got
    dropped,    \* how many scancodes found the queue full
    sent,       \* history: the reports sent since init returned
    typed,      \* history: the keys pressed since init returned
    disturbed,  \* history: a report was sent or a key pressed during init
    agreed,     \* history: init returned knowing the mouse's mode, and with none of its bytes unread
    overlap     \* history: a byte came while the other device's interrupt was pending

deviceVars == <<kind, streaming, id, rates, received>>
portVars == <<to_send, out, last, latched, enabled>>
stateVars == <<current_packet_index, current_state, delivered>>
initVars == <<pc, stage, tries, mouse_type, agreed>>
keyVars == <<queue, taken, dropped>>
history == <<sent, typed, disturbed, overlap>>
vars == <<deviceVars, portVars, stateVars, initVars, keyVars, history>>

Mouse == "mouse"
Keyboard == "keyboard"
NoByte == [src |-> "none", byte |-> 0]

ACK == 250
Identify == 242

\* The bytes init sends: enable_packet_streaming, enable_scroll_wheel and
\* enable_additional_button.
Commands ==
    <<244, 243, 200, 243, 100, 243, 80, Identify, 243, 200, 243, 200, 243, 80, Identify>>

Init ==
    /\ kind \in Kinds
    /\ streaming = FALSE /\ id = 0 /\ rates = << >> /\ received = 0
    /\ to_send = [src \in {Mouse, Keyboard} |-> << >>]
    /\ out = NoByte /\ last = 0 /\ latched = {} /\ enabled = FALSE
    /\ pc = 1 /\ stage = "write" /\ tries = 0 /\ mouse_type = "Standard"
    /\ current_packet_index = 0
    /\ current_state = [flags |-> 0, additional_flags |-> "None", move_x |-> 0, move_y |-> 0]
    /\ delivered = << >>
    /\ queue = << >> /\ taken = << >> /\ dropped = 0
    /\ sent = << >> /\ typed = << >>
    /\ disturbed = FALSE /\ agreed = FALSE /\ overlap = FALSE
-----------------------------------------------------------------------------
IsMouse == kind \in {"standard", "wheel", "five"}

Booting == stage \notin {"ok", "failed"}

Sends(src, bytes) == to_send' = [to_send EXCEPT ![src] = @ \o bytes]

\* A rate is the argument of 243; three of them in a row are a knock.
Knock(rate) == IF Len(rates) < 3 THEN Append(rates, rate) ELSE Append(Tail(rates), rate)

IdAfter(knock) ==
    IF knock = <<200, 100, 80>> /\ kind # "standard" THEN 3
    ELSE IF knock = <<200, 200, 80>> /\ kind = "five" /\ id # 0 THEN 4
    ELSE id

\* The mouse carries out a command and acknowledges it.
answer ==
    /\ IsMouse /\ received # 0
    /\ received' = 0
    /\ streaming' = (streaming \/ received = 244)
    /\ Sends(Mouse, IF received = Identify THEN <<ACK, id>> ELSE <<ACK>>)
    /\ IF received \in {200, 100, 80}
       THEN rates' = Knock(received) /\ id' = IdAfter(Knock(received))
       ELSE UNCHANGED <<rates, id>>
    /\ UNCHANGED <<kind, out, last, latched, enabled, stateVars, initVars, keyVars, history>>

PacketLength == IF id = 0 THEN 3 ELSE 4

\* The mouse is moved, at most once during init.
report(r) ==
    /\ IsMouse /\ streaming /\ received = 0
    /\ IF Booting THEN ~disturbed ELSE Len(sent) + Len(typed) < MaxInputs
    /\ Sends(Mouse, SubSeq(r, 1, PacketLength))
    /\ disturbed' = (disturbed \/ Booting)
    /\ sent' = IF Booting THEN sent ELSE Append(sent, r)
    /\ UNCHANGED <<deviceVars, out, last, latched, enabled, stateVars, initVars, keyVars,
                   typed, overlap>>

\* A key is pressed, at most one during init.
press ==
    /\ IF Booting THEN ~disturbed ELSE Len(sent) + Len(typed) < MaxInputs
    /\ LET key == Keys[Len(typed) + 1] IN
       /\ Sends(Keyboard, <<key>>)
       /\ typed' = IF Booting THEN typed ELSE Append(typed, key)
    /\ disturbed' = (disturbed \/ Booting)
    /\ UNCHANGED <<deviceVars, out, last, latched, enabled, stateVars, initVars, keyVars,
                   sent, overlap>>

\* The controller takes the next byte of a device and raises its interrupt.
transmit(src) ==
    /\ out = NoByte /\ to_send[src] # << >>
    /\ out' = [src |-> src, byte |-> Head(to_send[src])]
    /\ to_send' = [to_send EXCEPT ![src] = Tail(@)]
    /\ latched' = latched \union {src}
    /\ overlap' = (overlap \/ (~Booting /\ latched \ {src} # {}))
    /\ UNCHANGED <<deviceVars, last, enabled, stateVars, initVars, keyVars, sent, typed, disturbed>>

\* A read of the data port.
PortByte == IF out = NoByte THEN last ELSE out.byte

PortRead == out' = NoByte /\ last' = PortByte
-----------------------------------------------------------------------------
fail ==
    /\ stage' = "failed"
    /\ UNCHANGED <<pc, tries, mouse_type, agreed>>

ModeOf(type) == CASE type = "Standard" -> 0 [] type = "OnlyScroll" -> 3 [] type = "FiveButton" -> 4

\* The next command is due; or init returns, and the complete handler is set.
Advance(type) ==
    /\ mouse_type' = type
    /\ tries' = 0
    /\ pc' = pc + 1
    /\ stage' = IF pc = Len(Commands) THEN "ok" ELSE "write"
    /\ agreed' = (pc = Len(Commands) /\ ModeOf(type) = id /\ to_send[Mouse] = << >>)

\* write_command_port and write_data_port.  A controller that is stuck never
\* becomes ready to be written.
send_command ==
    /\ stage = "write"
    /\ IF kind = "stuck"
       THEN fail /\ UNCHANGED received
       ELSE /\ received' = Commands[pc]
            /\ stage' = "ack"
            /\ UNCHANGED <<pc, tries, mouse_type, agreed>>
    /\ UNCHANGED <<kind, streaming, id, rates, portVars, stateVars, keyVars, history>>

\* wait_for_read gives up, on an answer that may still come.
wait_for_read ==
    /\ stage \in {"ack", "id"} /\ out = NoByte
    /\ fail
    /\ UNCHANGED <<deviceVars, portVars, stateVars, keyVars, history>>

\* send_command reads until it finds an acknowledgement.
read_ack ==
    /\ stage = "ack" /\ out # NoByte
    /\ PortRead
    /\ \/ /\ out.byte = ACK /\ Commands[pc] = Identify
          /\ stage' = "id" /\ tries' = 0
          /\ UNCHANGED <<pc, mouse_type, agreed>>
       \/ /\ out.byte = ACK /\ Commands[pc] # Identify
          /\ Advance(mouse_type)
       \/ /\ out.byte # ACK /\ tries + 1 < MaxTries
          /\ tries' = tries + 1
          /\ UNCHANGED <<pc, stage, mouse_type, agreed>>
       \/ /\ out.byte # ACK /\ tries + 1 = MaxTries
          /\ fail
    /\ UNCHANGED <<deviceVars, to_send, latched, enabled, stateVars, keyVars, history>>

\* The first identification looks for a wheel, the second for five buttons.
Found(byte) ==
    IF pc # Len(Commands) /\ byte = 3 THEN "OnlyScroll"
    ELSE IF pc = Len(Commands) /\ byte = 4 THEN "FiveButton"
    ELSE mouse_type

read_id ==
    /\ stage = "id" /\ out # NoByte
    /\ PortRead
    /\ Advance(Found(out.byte))
    /\ UNCHANGED <<deviceVars, to_send, latched, enabled, stateVars, keyVars, history>>

start_schedule ==
    /\ ~Booting /\ ~enabled
    /\ enabled' = TRUE
    /\ UNCHANGED <<deviceVars, to_send, out, last, latched, stateVars, initVars, keyVars, history>>
-----------------------------------------------------------------------------
Bit(byte, b) == (byte \div b) % 2 = 1

ALWAYS_ONE == 8
X_SIGN == 16
Y_SIGN == 32
X_OVERFLOW == 64
Y_OVERFLOW == 128

\* A move of nine bits in two's complement, the ninth among the flags.
Signed(byte, negative) == IF negative THEN byte - 256 ELSE byte

Additional(byte) ==
    CASE byte = 65 -> "FirstButton"
      [] byte = 127 -> "SecondButton"
      [] byte = 1 -> "ScrollUp"
      [] byte \in {255, 15} -> "ScrollDown"
      [] OTHER -> "None"

\* current_state after one more byte of a packet.
StateAfter(s, at, byte) ==
    CASE at = 0 -> [s EXCEPT !.flags = byte]
      [] at = 1 -> IF Bit(s.flags, X_OVERFLOW) THEN s
                   ELSE [s EXCEPT !.move_x = Signed(byte, Bit(s.flags, X_SIGN))]
      [] at = 2 -> IF Bit(s.flags, Y_OVERFLOW) THEN s
                   ELSE [s EXCEPT !.move_y = Signed(byte, Bit(s.flags, Y_SIGN))]
      [] at = 3 -> [s EXCEPT !.additional_flags = Additional(byte)]

Modulo == IF mouse_type = "Standard" THEN 3 ELSE 4

MisplacedNever(byte) == FALSE

\* A first byte without its constant bit is no first byte: it is thrown away.
Misplaced(byte) == current_packet_index % Modulo = 0 /\ ~Bit(byte, ALWAYS_ONE)

process_packet(byte) ==
    LET at == current_packet_index % Modulo
        state == StateAfter(current_state, at, byte)
    IN  IF Misplaced(byte)
        THEN UNCHANGED stateVars
        ELSE /\ current_state' = state
             /\ delivered' = IF at = Modulo - 1 /\ stage = "ok" THEN Append(delivered, state)
                             ELSE delivered
             /\ current_packet_index' = (current_packet_index + 1) % Modulo

\* Of two pending interrupts the mouse's has the higher vector.
mouse_interrupt ==
    /\ enabled /\ Mouse \in latched
    /\ latched' = latched \ {Mouse}
    /\ PortRead
    /\ process_packet(PortByte)
    /\ UNCHANGED <<deviceVars, to_send, enabled, initVars, keyVars, history>>

add_scancode_forced(key) ==
    /\ queue' = IF Len(queue) < SCANCODE_QUEUE_SIZE THEN Append(queue, key) ELSE Append(Tail(queue), key)
    /\ UNCHANGED dropped

\* A queue that is full keeps what it has.
add_scancode(key) ==
    IF Len(queue) < SCANCODE_QUEUE_SIZE
    THEN queue' = Append(queue, key) /\ UNCHANGED dropped
    ELSE dropped' = dropped + 1 /\ UNCHANGED queue

keyboard_interrupt ==
    /\ enabled /\ latched = {Keyboard}
    /\ latched' = {}
    /\ PortRead
    /\ add_scancode(PortByte)
    /\ UNCHANGED <<deviceVars, to_send, enabled, stateVars, initVars, taken, history>>

get_scancode ==
    /\ enabled /\ queue # << >>
    /\ taken' = Append(taken, Head(queue))
    /\ queue' = Tail(queue)
    /\ UNCHANGED <<deviceVars, portVars, stateVars, initVars, dropped, history>>

Next ==
    \/ answer \/ press
    \/ \E r \in Reports : report(r)
    \/ \E src \in {Mouse, Keyboard} : transmit(src)
    \/ send_command \/ wait_for_read \/ read_ack \/ read_id \/ start_schedule
    \/ mouse_interrupt \/ keyboard_interrupt \/ get_scancode

Spec == Init /\ [][Next]_vars
-----------------------------------------------------------------------------
\* What a report says, however it is transmitted.
Says(state, r) ==
    /\ state.flags = r[1]
    /\ ~Bit(r[1], X_OVERFLOW) => state.move_x = Signed(r[2], Bit(r[1], X_SIGN))
    /\ ~Bit(r[1], Y_OVERFLOW) => state.move_y = Signed(r[3], Bit(r[1], Y_SIGN))
    /\ state.additional_flags = (IF id = 0 THEN "None" ELSE Additional(r[4]))

\* The complete handler is called with the mouse's reports, each one once and
\* in the order they were sent, across the polling of init, the interrupt it
\* leaves pending and the keys in between: if init was left alone, or got over
\* the disturbance, and no key came while that interrupt was pending (Mouse::init
\* and process_packet, which tell neither the device nor the age of a byte).
ReportsDelivered ==
    stage = "ok" /\ (agreed \/ ~disturbed) /\ ~overlap =>
        /\ Len(delivered) <= Len(sent)
        /\ \A i \in DOMAIN delivered : Says(delivered[i], sent[i])
        /\ out = NoByte /\ to_send[Mouse] = << >> /\ enabled => Len(delivered) = Len(sent)

\* Clients get the scancodes of the keys in the order they were pressed, each one
\* once, and one is missing only if it found the queue full: if init was left
\* alone and no byte came while the other device's interrupt was pending
\* (add_scancode, get_scancode and keyboard_interrupt).
ScancodesKept ==
    ~disturbed /\ ~overlap =>
        LET coming == (IF out.src = Keyboard THEN <<out.byte>> ELSE << >>) \o to_send[Keyboard]
            line == (taken \o queue) \o coming
        IN  /\ Len(line) + dropped = Len(typed)
            /\ \E key \in [DOMAIN line -> DOMAIN typed] :
                  /\ \A i, j \in DOMAIN line : i < j => key[i] < key[j]
                  /\ \A i \in DOMAIN line : line[i] = typed[key[i]]
            /\ Len(queue) <= SCANCODE_QUEUE_SIZE
=============================================================================
