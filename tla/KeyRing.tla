------------------------------- MODULE KeyRing -------------------------------
(***************************************************************************)
(* The key buffer of the last key driver,                                  *)
(* src/06_gpio_irq/10_.../key_drv.c lines 33-71: an array of BUF_LEN slots *)
(* that the timer handler fills and the file readers empty, with one index *)
(* for each.  This module holds the buffer's state and its operations;     *)
(* KeyRingSpec runs them one at a time, KeyDriver from interrupt and       *)
(* process context.                                                        *)
(***************************************************************************)
EXTENDS Integers

CONSTANTS
  BUF_LEN,    \* number of slots (120 in the code)
  NoKey       \* the -1 that get_key returns when it finds nothing

ASSUME BufLenAssumption == BUF_LEN \in Nat /\ BUF_LEN >= 2

VARIABLES
  g_key,      \* the slots
  g_key_r,    \* index of the next slot to read
  g_key_w,    \* index of the next slot to write
  out         \* what the last finished get_key returned

ringVars == <<g_key, g_key_r, g_key_w, out>>

Slots == 0 .. BUF_LEN - 1

\* Static storage: both indices 0, every slot holds the zero word.
RingInit(zero) ==
  /\ g_key = [i \in Slots |-> zero]
  /\ g_key_r = 0
  /\ g_key_w = 0
  /\ out = NoKey

is_key_buf_empty == g_key_r = g_key_w

\* (A faulty form, for the mutation checks: the test is off by one.)
is_key_buf_full_off_by_one == g_key_r = BUF_LEN

\* As written: it compares the read index with the end of the array and
\* does not look at the write index.
is_key_buf_full == g_key_r + 1 = BUF_LEN

\* (Faulty form: no wrap-around.)
AdvanceNoWrap(i) == i + 1

Advance(i) == (i + 1) % BUF_LEN

\* (Faulty forms: the index moves although the key was refused; a full buffer
\* drops its oldest key, which moves the reader's index.)
put_key_no_braces(k) ==
  /\ g_key' = IF is_key_buf_full THEN g_key ELSE [g_key EXCEPT ![g_key_w] = k]
  /\ g_key_w' = Advance(g_key_w)
  /\ UNCHANGED <<g_key_r, out>>
put_key_drop_oldest(k) ==
  /\ g_key' = [g_key EXCEPT ![g_key_w] = k]
  /\ g_key_w' = Advance(g_key_w)
  /\ g_key_r' = IF Advance(g_key_w) = g_key_r THEN Advance(g_key_r) ELSE g_key_r
  /\ UNCHANGED out

\* Only the writer side changes; a full buffer refuses the key silently.
put_key(k) ==
  /\ IF is_key_buf_full
       THEN UNCHANGED <<g_key, g_key_w>>
       ELSE /\ g_key' = [g_key EXCEPT ![g_key_w] = k]
            /\ g_key_w' = Advance(g_key_w)
  /\ UNCHANGED <<g_key_r, out>>

\* (Faulty form: the index moves although there was no key.)
get_key_no_braces ==
  /\ out' = IF is_key_buf_empty THEN NoKey ELSE g_key[g_key_r]
  /\ g_key_r' = Advance(g_key_r)
  /\ UNCHANGED <<g_key, g_key_w>>

\* Only the reader side changes.
get_key ==
  /\ IF is_key_buf_empty
       THEN /\ out' = NoKey
            /\ UNCHANGED g_key_r
       ELSE /\ out' = g_key[g_key_r]
            /\ g_key_r' = Advance(g_key_r)
  /\ UNCHANGED <<g_key, g_key_w>>

-----------------------------------------------------------------------------
\* Vocabulary of the properties.

\* The number of keys between the two indices, and the slot of the n-th.
Count == IF g_key_r <= g_key_w THEN g_key_w - g_key_r
                               ELSE g_key_w - g_key_r + BUF_LEN
SlotOf(n) == IF g_key_r + n - 1 < BUF_LEN THEN g_key_r + n - 1
                                          ELSE g_key_r + n - 1 - BUF_LEN

\* Both indices rest on the last slot: put_key refuses every key, and there
\* is nothing for a reader to take that would move the read index.
Deaf == g_key_r = BUF_LEN - 1 /\ g_key_w = BUF_LEN - 1
=============================================================================
