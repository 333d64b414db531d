------------------------------ MODULE AudioRing ------------------------------
(***************************************************************************)
(* The audio stream buffer (native devices/audio.c, nemu common/audio.c)   *)
(* and the programs that feed it, amtest's audio.c above all: the program  *)
(* appends at head, the player takes from tail, and count, which both      *)
(* update, says how much lies between.                                     *)
(*                                                                         *)
(* On the native port the player is a callback in SDL's audio thread, and  *)
(* count is a volatile int that no lock protects: every read of it and     *)
(* every write is a step.  A copy is one step: two copies meet the same    *)
(* bytes only after an update of count was lost.  A copy longer than SDL's *)
(* stream puts its last units behind it, where nobody plays them; what     *)
(* else they overwrite there is not modelled.  On NEMU, count is a device  *)
(* register and the player belongs to the emulator; it is modelled as      *)
(* taking its data in one step.                                            *)
(*                                                                         *)
(* The stream is cut into numbered units; sbuf holds their numbers.        *)
(***************************************************************************)
EXTENDS Integers

CONSTANTS Native,     \* the ports: native (TRUE), NEMU (FALSE)
          Size,       \* bufsize, in units
          Chunk,      \* lengths a program asks to write
          PlayLen,    \* lengths a player asks for, the same one each time
          Total       \* bound: units of the stream

ASSUME AudioAssumption == /\ Native \subseteq BOOLEAN
                          /\ Size \in Nat \ {0} /\ Total \in Nat
                          /\ Chunk \subseteq 1..Size /\ PlayLen \subseteq Nat \ {0}

VARIABLES
  native,             \* the port
  wait,               \* the ctl.wait of the program's writes
  sbuf, sbufHead, sbufTail, count,   \* head and tail of the code
  prog,               \* where the program is
  asked,              \* ctl.len of its write
  nwrite, wreg,       \* of audio_write: how much, and count as it has been read
  fed,                \* the program's nplay
  play, len,          \* where the player is; the length it asks for
  nread, preg,        \* of audio_play
  heard, spilled,     \* history: units that left the buffer in order and were
                      \* played; and those copied behind SDL's stream
  garbled,            \* history: a wrong unit has left the buffer
  lost                \* history: a store to count has undone another

ring == <<sbuf, sbufHead, sbufTail, count>>
writer == <<prog, asked, nwrite, wreg, fed>>
sound == <<heard, spilled, garbled>>
player == <<play, nread, preg, sound>>
fixed == <<native, wait, len>>
audioVars == <<fixed, ring, writer, player, lost>>

Least(a, b) == IF a < b THEN a ELSE b

\* _DEVREG_AUDIO_INIT has been written.
AudioInit == /\ native \in Native /\ wait \in BOOLEAN /\ len \in PlayLen
             /\ sbuf = [i \in 0..(Size - 1) |-> 0]
             /\ sbufHead = 0 /\ sbufTail = 0 /\ count = 0
             /\ prog = "main" /\ asked = 0 /\ nwrite = 0 /\ wreg = 0 /\ fed = 0
             /\ play = "idle" /\ nread = 0 /\ preg = 0
             /\ heard = 0 /\ spilled = 0 /\ garbled = FALSE /\ lost = FALSE

at(p, q) == prog = p /\ prog' = q

\* Mutation of Moved: a wrap loses what went beyond.
MovedForgetful(p, n) == IF n + p < Size THEN p + n ELSE 0
\* The position n units behind p.
Moved(p, n) == IF n + p < Size THEN p + n ELSE n - (Size - p)

-----------------------------------------------------------------------------
(* The program.                                                            *)

\* _io_write of _DEVREG_AUDIO_SBCTRL, with or without wait.
Submit == /\ fed < Total
          /\ at("main", IF wait THEN "wait" ELSE "free")
          /\ \E n \in Chunk : asked' = Least(n, Total - fed)
          /\ UNCHANGED <<fixed, ring, nwrite, wreg, fed, player, lost>>

\* while (sbuf_size - count < ctl->len) ends.
Wait == /\ at("wait", "free")
        /\ Size - count >= asked
        /\ UNCHANGED <<fixed, ring, asked, nwrite, wreg, fed, player, lost>>

\* Mutation of ReadFree: the free room is not looked at.
ReadFreeForgotten == /\ at("free", "copy")
                     /\ nwrite' = asked /\ wreg' = count
                     /\ UNCHANGED <<fixed, ring, asked, fed, player, lost>>

\* audio_write: how much fits.  NEMU keeps what it has read of count.
ReadFree == /\ at("free", "copy")
            /\ nwrite' = Least(asked, Size - count)
            /\ wreg' = IF native THEN wreg ELSE count
            /\ UNCHANGED <<fixed, ring, asked, fed, player, lost>>

CopyIn == /\ at("copy", IF native THEN "load" ELSE "store")
          /\ sbuf' = [i \in 0..(Size - 1) |->
               LET d == (i - sbufHead) % Size IN IF d < nwrite THEN fed + d + 1 ELSE sbuf[i]]
          /\ sbufHead' = Moved(sbufHead, nwrite)
          /\ UNCHANGED <<fixed, sbufTail, count, asked, nwrite, wreg, fed, player, lost>>

\* count += nwrite; the caller goes on by what audio_write returns.
LoadCount == /\ at("load", "store")
             /\ wreg' = count
             /\ UNCHANGED <<fixed, ring, asked, nwrite, fed, player, lost>>
StoreCount == /\ at("store", "main")
              /\ count' = wreg + nwrite
              /\ lost' = (lost \/ count # wreg)
              /\ fed' = fed + nwrite
              /\ UNCHANGED <<fixed, sbuf, sbufHead, sbufTail, asked, nwrite, wreg, player>>

\* The test's last loop reads _DEVREG_AUDIO_SBSTAT until stat.count is 0.
Finish == /\ at("main", "end")
          /\ fed = Total /\ count = 0
          /\ UNCHANGED <<fixed, ring, asked, nwrite, wreg, fed, player, lost>>

Program == Submit \/ Wait \/ ReadFree \/ CopyIn \/ LoadCount \/ StoreCount \/ Finish

-----------------------------------------------------------------------------
(* The player.                                                             *)

Gone == heard + spilled

\* n units leave the buffer from sbufTail on; SDL plays the first len of them.
TakeOut(n) ==
  LET right == /\ ~garbled
               /\ \A d \in 0..(n - 1) : sbuf[(sbufTail + d) % Size] = Gone + d + 1
  IN /\ heard' = IF right THEN heard + Least(n, len) ELSE heard
     /\ spilled' = IF right THEN spilled + (n - Least(n, len)) ELSE spilled
     /\ garbled' = ~right
     /\ sbufTail' = Moved(sbufTail, n)

\* audio_play reads count twice, if it is short: nread may come out above len.
ReadCount == /\ native /\ play = "idle"
             /\ IF count < len THEN play' = "short" /\ UNCHANGED nread
                               ELSE play' = "copy" /\ nread' = len
             /\ UNCHANGED <<fixed, ring, writer, preg, sound, lost>>
ReadShort == /\ play = "short"
             /\ play' = "copy" /\ nread' = count
             /\ UNCHANGED <<fixed, ring, writer, preg, sound, lost>>

CopyOut == /\ play = "copy"
           /\ play' = "load" /\ TakeOut(nread)
           /\ UNCHANGED <<fixed, sbuf, sbufHead, count, writer, nread, preg, lost>>

\* count -= nread.
LoadPlayed == /\ play = "load"
              /\ play' = "store" /\ preg' = count
              /\ UNCHANGED <<fixed, ring, writer, nread, sound, lost>>

\* Mutation of StorePlayed: count does not fall.
StorePlayedForgotten ==
  /\ play = "store"
  /\ play' = "idle"
  /\ UNCHANGED <<fixed, ring, writer, nread, preg, sound, lost>>
StorePlayed == /\ play = "store"
               /\ play' = "idle" /\ count' = preg - nread
               /\ lost' = (lost \/ count # preg)
               /\ UNCHANGED <<fixed, sbuf, sbufHead, sbufTail, writer, nread, preg, sound>>

\* NEMU's device.
DevicePlays == /\ ~native
               /\ TakeOut(Least(count, len))
               /\ count' = count - Least(count, len)
               /\ UNCHANGED <<fixed, sbuf, sbufHead, writer, play, nread, preg, lost>>

Player == ReadCount \/ ReadShort \/ CopyOut \/ LoadPlayed \/ StorePlayed \/ DevicePlays

AudioNext == Program \/ Player

AudioSpec == AudioInit /\ [][AudioNext]_audioVars

-----------------------------------------------------------------------------
(* Properties.                                                             *)

AudioTypeOK == /\ native \in Native /\ wait \in BOOLEAN /\ len \in PlayLen
               /\ sbuf \in [0..(Size - 1) -> 0..Total]
               /\ sbufHead \in 0..(Size - 1) /\ sbufTail \in 0..(Size - 1) /\ count \in Int
               /\ prog \in {"main", "wait", "free", "copy", "load", "store", "end"}
               /\ asked \in 0..Total /\ nwrite \in Int /\ wreg \in Int
               /\ fed \in 0..Total
               /\ play \in {"idle", "short", "copy", "load", "store"}
               /\ nread \in Int /\ preg \in Int
               /\ heard \in Nat /\ spilled \in Nat /\ Gone \in 0..Total
               /\ garbled \in BOOLEAN /\ lost \in BOOLEAN

\* However the updates of count meet, it stays between empty and full, and so does
\* every length a copy uses (audio.c:25 and :43).
CountInRange == /\ count \in 0..Size
                /\ nwrite \in 0..Size /\ nread \in 0..Size

\* As long as no update of count is lost, every unit leaves the buffer once and in
\* order, and all of them before the test ends: "wait until the audio finishes"
\* (tests/audio.c:26).  SDL plays them, but for those that audio_play's second read of
\* count (audio.c:14) adds beyond len: on the native port, with a stream shorter than
\* the buffer.
PlaysInOrder == /\ ~lost => /\ ~garbled
                            /\ wait /\ prog = "end" => heard + spilled = Total
                /\ spilled > 0 => native /\ len < Size

\* A program that waits for room gets all of its write into the buffer: fceux does not look at the length
\* that comes back (sdl-sound.cpp:132).
WaitSuffices == prog \in {"load", "store"} /\ wait => nwrite = asked

\* A program that waits, as the test does, comes to its end, whatever happens to count.
TestEnds == wait ~> prog = "end"
=============================================================================
