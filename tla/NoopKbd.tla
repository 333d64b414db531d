------------------------------- MODULE NoopKbd -------------------------------
(***************************************************************************)
(* The keyboard of the NOOP port (noop/common/input.c): a serial line      *)
(* brings characters, and __am_input_read makes key events of them, down   *)
(* and up, as programs expect that keep a table of the keys that are down  *)
(* (fceux, litenes).  A key comes up when another one is typed, or when    *)
(* none has been for half a second.                                        *)
(*                                                                         *)
(* Of uptime() - timestamp only matters whether it is above the half       *)
(* second; age counts up to there.                                         *)
(***************************************************************************)
EXTENDS Naturals, Sequences

CONSTANTS
  Key,          \* characters am_keycode maps to a key
  Other,        \* the characters below 128, and 255, that it maps to none
  High,         \* those from 128 to 254
  None,         \* _KEY_NONE
  Timeout,      \* 500 in the code
  FifoLen,      \* the UART's receive buffer
  MaxTyped      \* bound: characters typed

ASSUME LineAssumption == /\ None \notin Key /\ Key \cap (Other \cup High) = {}
                        /\ Timeout \in Nat /\ FifoLen \in Nat /\ MaxTyped \in Nat

VARIABLES
  fifo,                     \* characters received and not read
  lastKey, lastRelease, age,
  down,                     \* the program's key_state: the keys it takes to be down
  halted,                   \* the assertion has failed
  typed, pressed            \* history: keys received, keys that went down in the program

driver == <<lastKey, lastRelease, age>>
lineVars == <<fifo, driver, down, halted, typed, pressed>>

LineInit == /\ fifo = <<>>
            /\ lastKey = None /\ lastRelease = FALSE /\ age \in {0, Timeout + 1}
            /\ down = {} /\ halted = FALSE
            /\ typed = <<>> /\ pressed = <<>>

\* The line delivers a character; a full buffer drops it.
Receive(c) == /\ Len(typed) < MaxTyped
              /\ Len(fifo) < FifoLen
              /\ fifo' = Append(fifo, c)
              /\ typed' = Append(typed, c)
              /\ UNCHANGED <<driver, down, halted, pressed>>

\* Time passes.
Tick == /\ age <= Timeout
        /\ age' = age + 1
        /\ UNCHANGED <<fifo, lastKey, lastRelease, down, halted, typed, pressed>>

-----------------------------------------------------------------------------
(* One call of __am_input_read, and what the program makes of its result.  *)

GoesDown(k) == /\ down' = down \cup {k}
               /\ pressed' = Append(pressed, k)
ComesUp(k) == /\ down' = down \ {k}
              /\ UNCHANGED pressed
NoEvent == UNCHANGED <<down, pressed>>

\* __am_uartlite_getchar returns c, 0 if nothing has been received.
Char(c) == IF fifo = <<>> THEN c = None /\ UNCHANGED fifo
                          ELSE c = Head(fifo) /\ fifo' = Tail(fifo)

Calling == ~halted /\ UNCHANGED typed

\* The makecode that was put off.
Deferred == /\ Calling /\ lastRelease
            /\ GoesDown(lastKey)
            /\ lastRelease' = FALSE /\ age' = 0
            /\ UNCHANGED <<fifo, lastKey, halted>>

\* Mutation of Press: the makecode that was put off is forgotten.
PressForgetful(c) ==
  /\ Calling /\ ~lastRelease
  /\ Char(c) /\ c \in Key
  /\ lastKey' = c
  /\ IF lastKey \in {None, c} THEN GoesDown(c) ELSE ComesUp(lastKey)
  /\ age' = 0
  /\ UNCHANGED <<lastRelease, halted>>

\* A key, with the key before still down or not.
Press(c) == /\ Calling /\ ~lastRelease
            /\ Char(c) /\ c \in Key
            /\ lastKey' = c
            /\ \/ /\ lastKey \in {None, c}
                  /\ GoesDown(c) /\ age' = 0
                  /\ UNCHANGED lastRelease
               \/ /\ lastKey \notin {None, c}
                  /\ ComesUp(lastKey) /\ lastRelease' = TRUE
                  /\ UNCHANGED age
            /\ UNCHANGED halted

\* Mutation of Silence: the key stays the last one.
SilenceForgotten(c) ==
  /\ Calling /\ ~lastRelease
  /\ Char(c) /\ c \in Other \cup {None}
  /\ NoEvent
  /\ UNCHANGED <<driver, halted>>

\* No key: the last one comes up if it is long ago.
Silence(c) == /\ Calling /\ ~lastRelease
              /\ Char(c) /\ c \in Other \cup {None}
              /\ IF lastKey # None /\ age > Timeout
                 THEN ComesUp(lastKey) /\ lastKey' = None
                 ELSE NoEvent /\ UNCHANGED lastKey
              /\ UNCHANGED <<lastRelease, age, halted>>

\* assert(_k < 128 && _k >= 0)
Assertion(c) == /\ Calling /\ ~lastRelease
                /\ Char(c) /\ c \in High
                /\ halted' = TRUE
                /\ NoEvent
                /\ UNCHANGED driver

Chars == Key \cup Other \cup High \cup {None}

Read == Deferred \/ \E c \in Chars : Press(c) \/ Silence(c) \/ Assertion(c)

Halted == halted /\ UNCHANGED lineVars

LineNext == Read \/ Tick \/ Halted \/ \E c \in Key \cup Other \cup High : Receive(c)

LineSpec == LineInit /\ [][LineNext]_lineVars

-----------------------------------------------------------------------------
(* Properties.                                                             *)

LineTypeOK == /\ fifo \in Seq(Key \cup Other \cup High) /\ Len(fifo) <= FifoLen
              /\ lastKey \in Key \cup {None} /\ lastRelease \in BOOLEAN
              /\ age \in 0..(Timeout + 1)
              /\ down \subseteq Key /\ halted \in BOOLEAN
              /\ pressed \in Seq(Key)

\* The program sees one key down at most, the one typed last: the old key's breakcode
\* comes before the new key's makecode (input.c:57).
OneKeyDown == down = IF lastRelease \/ lastKey = None THEN {} ELSE {lastKey}

\* The keys among the characters of s, in order.
KeysOf(s) ==
  LET first[n \in 0..Len(s)] == IF n = 0 THEN <<>>
                                ELSE IF s[n] \in Key THEN Append(first[n - 1], s[n])
                                                     ELSE first[n - 1]
  IN  first[Len(s)]

\* Every key received goes down in the program, once and in order; what is still to
\* come is in the driver or in the UART.
Deferring == IF lastRelease THEN <<lastKey>> ELSE <<>>
NoKeyLost == ~halted => KeysOf(typed) = pressed \o Deferring \o KeysOf(fifo)

\* No key is stuck: once down, a key comes up, or the program ends.
KeysComeUp == \A k \in Key : k \in down ~> (k \notin down \/ halted)
=============================================================================
