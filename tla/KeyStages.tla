------------------------------ MODULE KeyStages ------------------------------
(***************************************************************************)
(* The running code of the ten key drivers of src/06_gpio_irq and of the   *)
(* test programs beside them, as programs: each function is the sequence   *)
(* of its steps that read or write something shared.  StageRun says what   *)
(* a step does.  Every stage repeats the previous one with a change, so a  *)
(* function that is a copy is named as the copy it is.                     *)
(***************************************************************************)
EXTENDS Naturals, Sequences

CONSTANT NonblockReads  \* the reads the test makes with O_NONBLOCK set

ASSUME NonblockReadsAssumption == NonblockReads \in Nat

Stages == 1 .. 10

\* gpiod_get_value: the level of the key's line, read into the local val.
Sample == <<"sample">>

-----------------------------------------------------------------------------
(* The interrupt handlers.  Until stage 06 they take the key themselves;    *)
(* from stage 07 on they only start what does.                              *)

put_key06 == <<"put_ring">>
put_key07 == put_key06
put_key08 == put_key06
put_key09 == put_key06
put_key10 == put_key06

keys_irq01 == Sample
keys_irq02 == Sample \o <<"store_word", "wake_up">>
keys_irq03 == Sample \o <<"store_slot", "inc_w", "wake_up">>
keys_irq04 == keys_irq03

\* (Faulty form: stage 05 forgets the signal.)
keys_irq_mute == keys_irq04

keys_irq05 == keys_irq04 \o <<"kill_fasync">>
keys_irq06 == Sample \o put_key06 \o <<"wake_up", "kill_fasync">>

\* (Faulty form: stage 07 forgets to arm the timer.)
keys_irq_no_timer == <<"tasklet_schedule">>

keys_irq07 == <<"tasklet_schedule", "mod_timer">>
keys_irq08 == <<"tasklet_schedule", "schedule_work", "mod_timer">>
keys_irq09 == keys_irq08
keys_irq10 == keys_irq09 \o <<"wake_thread">>

\* (Faulty form: the handlers of stages 02 and 04 forget the sleeper.)
keys_irq_silent ==
  <<keys_irq01, Sample \o <<"store_word">>, keys_irq03,
    Sample \o <<"store_slot", "inc_w">>, keys_irq05, keys_irq06, keys_irq07,
    keys_irq08, keys_irq09, keys_irq10>>

keys_irq == <<keys_irq01, keys_irq02, keys_irq03, keys_irq04, keys_irq05,
              keys_irq06, keys_irq07, keys_irq08, keys_irq09, keys_irq10>>

\* The debounce timer's handler.
key_timer_expire07 == Sample \o put_key07 \o <<"wake_up", "kill_fasync">>
key_timer_expire08 == Sample \o put_key08 \o <<"wake_up", "kill_fasync">>
key_timer_expire09 == Sample \o put_key09 \o <<"wake_up", "kill_fasync">>
key_timer_expire10 == Sample \o put_key10 \o <<"wake_up", "kill_fasync">>

key_timer_expire ==
  <<key_timer_expire07, key_timer_expire08, key_timer_expire09,
    key_timer_expire10>>

\* The handlers that read the level and log it.
key_task_func07 == Sample
key_task_func08 == Sample
key_task_func09 == Sample
key_task_func10 == Sample
key_work_func08 == Sample
key_work_func09 == Sample
key_work_func10 == Sample
keys_thread_irq10 == Sample

deferred_funcs ==
  [i \in Stages |->
     CASE i < 7 -> [h \in {} |-> Sample]
       [] i = 7 -> [h \in {"task"} |-> key_task_func07]
       [] i = 8 -> [h \in {"task", "work"} |->
                      IF h = "task" THEN key_task_func08 ELSE key_work_func08]
       [] i = 9 -> [h \in {"task", "work"} |->
                      IF h = "task" THEN key_task_func09 ELSE key_work_func09]
       [] i = 10 -> [h \in {"task", "work", "thread"} |->
                       CASE h = "task" -> key_task_func10
                         [] h = "work" -> key_work_func10
                         [] h = "thread" -> keys_thread_irq10]]

-----------------------------------------------------------------------------
(* The file operations.                                                     *)

\* (Faulty form: the index stays.)
get_key_stays == <<"get_load", "get_load">>

\* The key is read and the index moved in two steps; neither happens when
\* the buffer is empty, and the key is -1 then.
get_key06 == <<"get_load", "get_store">>
get_key07 == get_key06
get_key08 == get_key06
get_key09 == get_key06
get_key10 == get_key06

\* (Faulty form: the slot is cleared before it is copied out.)
keys_read_clear_first == <<"wait_word", "clear_word", "copy_word", "return4">>

keys_read02 == <<"wait_word", "copy_word", "clear_word", "return4">>

\* (Faulty form: the index moves before the copy.)
keys_read_advance_first == <<"wait_slot", "inc_r", "copy_slot", "return4">>

keys_read03 == <<"wait_slot", "copy_slot", "inc_r", "return4">>
keys_read04 == keys_read03
keys_read05 == keys_read04
keys_read06 == <<"EAGAIN_if_empty", "wait_ring">> \o get_key06 \o <<"return4">>
keys_read07 == <<"EAGAIN_if_empty", "wait_ring">> \o get_key07 \o <<"return4">>
keys_read08 == <<"EAGAIN_if_empty", "wait_ring">> \o get_key08 \o <<"return4">>
keys_read09 == <<"EAGAIN_if_empty", "wait_ring">> \o get_key09 \o <<"return4">>
keys_read10 == <<"EAGAIN_if_empty", "wait_ring">> \o get_key10 \o <<"return4">>

\* poll_wait, then the indices (not the slot the read will wait for).
keys_poll04 == <<"poll_wait", "poll_test">>
keys_poll05 == keys_poll04
keys_poll06 == keys_poll05
keys_poll07 == keys_poll06
keys_poll08 == keys_poll07
keys_poll09 == keys_poll08
keys_poll10 == keys_poll09

keys_fasync05 == <<"fasync_helper">>
keys_fasync06 == keys_fasync05
keys_fasync07 == keys_fasync05
keys_fasync08 == keys_fasync05
keys_fasync09 == keys_fasync05
keys_fasync10 == keys_fasync05

-----------------------------------------------------------------------------
(* What a process can call: the operations a stage's file_operations name.  *)

keys_fops02 == [read |-> keys_read02]
keys_fops03 == [read |-> keys_read03]
keys_fops04 == [read |-> keys_read04, poll |-> keys_poll04]
keys_fops05 ==
  [read |-> keys_read05, poll |-> keys_poll05, fasync |-> keys_fasync05]
keys_fops06 ==
  [read |-> keys_read06, poll |-> keys_poll06, fasync |-> keys_fasync06]
keys_fops07 ==
  [read |-> keys_read07, poll |-> keys_poll07, fasync |-> keys_fasync07]
keys_fops08 ==
  [read |-> keys_read08, poll |-> keys_poll08, fasync |-> keys_fasync08]
keys_fops09 ==
  [read |-> keys_read09, poll |-> keys_poll09, fasync |-> keys_fasync09]
keys_fops10 ==
  [read |-> keys_read10, poll |-> keys_poll10, fasync |-> keys_fasync10]

keys_fops == <<[none |-> << >>], keys_fops02, keys_fops03, keys_fops04,
               keys_fops05, keys_fops06, keys_fops07, keys_fops08,
               keys_fops09, keys_fops10>>

-----------------------------------------------------------------------------
(* The test programs: calls made once, calls made for ever, and the calls   *)
(* of the SIGIO handler.                                                    *)

sig_func05 == <<"read">>
sig_func06 == <<"read">>

button_test02 == [once |-> << >>, loop |-> <<"read">>, sig |-> << >>]
button_test03 == button_test02
button_test04 ==
  [once |-> << >>, loop |-> <<"poll", "read_if_in">>, sig |-> << >>]

\* Spins once it has asked for SIGIO.
button_test05 == [once |-> <<"fasync">>, loop |-> << >>, sig |-> sig_func05]

\* Opened with O_NONBLOCK; the flag is cleared after the reads that use it.
\* Stages 06 to 10 use this program; nobody asks for SIGIO.
button_test06 ==
  [once |-> <<"set_nonblock">> \o [i \in 1 .. NonblockReads |-> "read"]
              \o <<"clear_nonblock">>,
   loop |-> <<"read">>, sig |-> sig_func06]

button_test07 == button_test06
button_test08 == button_test06
button_test09 == button_test06
button_test10 == button_test06

button_test ==
  <<[once |-> << >>, loop |-> << >>, sig |-> << >>], button_test02,
    button_test03, button_test04, button_test05, button_test06,
    button_test07, button_test08, button_test09, button_test10>>
=============================================================================
