------------------------------ MODULE NativeKbd ------------------------------
(***************************************************************************)
(* The keyboard of the native port (devices/input.c, ioe.c): a thread puts *)
(* SDL's key events into a ring under a mutex and raises SIGUSR1, and the  *)
(* program takes them out, one a read_key().  Programs either poll, as     *)
(* keyboard.c and the emulators do, or read once in each device interrupt, *)
(* as the handler of intr.c does.                                          *)
(*                                                                         *)
(* The thread exists after the second _ioe_init(), which the first access  *)
(* to any device makes.  A program may have made one before it turns       *)
(* interrupts on; hello_intr() of intr.c has not.                          *)
(***************************************************************************)
EXTENDS Naturals, Sequences

CONSTANTS Polls, Touched,   \* kinds of programs, as sets of Booleans
          QueueLen,         \* KEY_QUEUE_LEN
          MaxEvents         \* bound: key events

ASSUME QueueAssumption == /\ Polls \subseteq BOOLEAN /\ Touched \subseteq BOOLEAN
                        /\ QueueLen \in Nat \ {0, 1} /\ MaxEvents \in Nat

VARIABLES
  polls,                 \* the program polls; otherwise its handler reads
  initFlag,              \* init_flag of ioe.c
  queue, keyF, keyR,     \* key_queue, with an event as its number
  mutex,                 \* who holds key_queue_lock, or "nobody"
  thread, reader,        \* where event_thread and __am_input_read are
  signal,                \* SIGUSR1 is pending
  k,                     \* the reader's k
  queued, got,           \* history: events queued, last one read
  merged, lapped         \* history: a signal met a pending one; the ring was overrun

history == <<polls, queued, got, merged, lapped>>
kbdVars == <<history, initFlag, queue, keyF, keyR, mutex, thread, reader, signal, k>>

Slot == 0..(QueueLen - 1)

\* _ioe_init() has been called in main, and perhaps once more.
KbdInit == /\ polls \in Polls
           /\ initFlag \in {IF t THEN 2 ELSE 1 : t \in Touched}
           /\ thread = IF initFlag = 2 THEN "wait" ELSE "none"
           /\ queue = [i \in Slot |-> 0] /\ keyF = 0 /\ keyR = 0
           /\ mutex = "nobody" /\ reader = "out" /\ signal = FALSE /\ k = 0
           /\ queued = 0 /\ got = 0 /\ merged = FALSE /\ lapped = FALSE

After(i) == (i + 1) % QueueLen

-----------------------------------------------------------------------------
(* event_thread.                                                           *)

moves(p, q) == thread = p /\ thread' = q

\* SDL_WaitEvent returns with a key of keymap; other events change nothing.
KeyEvent == /\ moves("wait", "lock")
            /\ queued < MaxEvents
            /\ UNCHANGED <<history, initFlag, queue, keyF, keyR, mutex, reader, signal, k>>

\* Mutation of ThreadLocks: no mutex.
ThreadBarges == /\ moves("lock", "write")
                /\ UNCHANGED <<history, initFlag, queue, keyF, keyR, mutex, reader, signal, k>>
ThreadLocks == /\ moves("lock", "write")
               /\ mutex = "nobody" /\ mutex' = "thread"
               /\ UNCHANGED <<history, initFlag, queue, keyF, keyR, reader, signal, k>>

WriteSlot == /\ moves("write", "advance")
             /\ queue' = [queue EXCEPT ![keyR] = queued + 1]
             /\ UNCHANGED <<history, initFlag, keyF, keyR, mutex, reader, signal, k>>

AdvanceRear == /\ moves("advance", "unlock")
               /\ keyR' = After(keyR)
               /\ queued' = queued + 1
               /\ lapped' = (lapped \/ After(keyR) = keyF)
               /\ UNCHANGED <<polls, got, merged, initFlag, queue, keyF, mutex, reader, signal, k>>

ThreadUnlocks == /\ moves("unlock", "kill")
                 /\ mutex' = "nobody"
                 /\ UNCHANGED <<history, initFlag, queue, keyF, keyR, reader, signal, k>>

\* kill(getpid(), SIGUSR1): a signal that is pending already stays one.
Kill == /\ moves("kill", "wait")
        /\ signal' = TRUE
        /\ merged' = (merged \/ signal)
        /\ UNCHANGED <<polls, queued, got, lapped, initFlag, queue, keyF, keyR, mutex, reader, k>>

EventThread == KeyEvent \/ ThreadLocks \/ WriteSlot \/ AdvanceRear \/ ThreadUnlocks \/ Kill

-----------------------------------------------------------------------------
(* read_key(): _io_read and __am_input_read.                               *)

reads(p, q) == reader = p /\ reader' = q

\* The program polls, or takes the signal; the first access starts the devices.
Call == /\ reads("out", "lock")
        /\ polls \/ signal
        /\ signal' = (polls /\ signal)
        /\ initFlag' = 2
        /\ thread' = IF initFlag = 1 THEN "wait" ELSE thread
        /\ UNCHANGED <<history, queue, keyF, keyR, mutex, k>>

ReaderLocks == /\ reads("lock", "test")
               /\ mutex = "nobody" /\ mutex' = "reader"
               /\ UNCHANGED <<history, initFlag, queue, keyF, keyR, thread, signal, k>>

ReadSlot == /\ reads("test", "advance")
            /\ keyF # keyR
            /\ k' = queue[keyF]
            /\ UNCHANGED <<history, initFlag, queue, keyF, keyR, mutex, thread, signal>>

\* _KEY_NONE
FindNone == /\ reads("test", "unlock")
            /\ keyF = keyR
            /\ UNCHANGED <<history, initFlag, queue, keyF, keyR, mutex, thread, signal, k>>

AdvanceFront == /\ reads("advance", "unlock")
                /\ keyF' = After(keyF)
                /\ got' = k
                /\ UNCHANGED <<polls, queued, merged, lapped, initFlag, queue, keyR, mutex, thread,
                               signal, k>>

ReaderUnlocks == /\ reads("unlock", "out")
                 /\ mutex' = "nobody"
                 /\ UNCHANGED <<history, initFlag, queue, keyF, keyR, thread, signal, k>>

Reader == Call \/ ReaderLocks \/ ReadSlot \/ FindNone \/ AdvanceFront \/ ReaderUnlocks

KbdNext == EventThread \/ Reader

KbdSpec == KbdInit /\ [][KbdNext]_kbdVars

-----------------------------------------------------------------------------
(* Properties.                                                             *)

KbdTypeOK == /\ polls \in Polls /\ initFlag \in {1, 2}
             /\ queue \in [Slot -> 0..MaxEvents] /\ keyF \in Slot /\ keyR \in Slot
             /\ mutex \in {"nobody", "thread", "reader"}
             /\ thread \in {"none", "wait", "lock", "write", "advance", "unlock", "kill"}
             /\ reader \in {"out", "lock", "test", "advance", "unlock"}
             /\ signal \in BOOLEAN /\ k \in 0..MaxEvents
             /\ queued \in 0..MaxEvents /\ got \in 0..MaxEvents
             /\ merged \in BOOLEAN /\ lapped \in BOOLEAN

Unread == (keyR + QueueLen - keyF) % QueueLen
Content == [i \in 1..Unread |-> queue[(keyF + i - 1) % QueueLen]]

\* Events come out once and in order, even while the ring is overrun.
Abstract == INSTANCE KeyQueue WITH content <- Content
QueueSpec == Abstract!Spec

\* Once nobody types any more, every event SDL has delivered gets into the queue and is read:
\* by a program that polls unless the ring has been overrun, by a handler unless signals
\* have merged besides.
AllRead   == thread \in {"none", "wait"} /\ Unread = 0
=============================================================================
