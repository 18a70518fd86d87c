----------------------------- MODULE DeviceTable ------------------------------
(***************************************************************************)
(* The drivers whose nodes processes open: for each, the programs of       *)
(* RegisterPrograms that an open and a call run, its registers after       *)
(* reset, and what its pins need.                                          *)
(***************************************************************************)
EXTENDS RegisterPrograms

\* A driver as a process sees it: its test, open and the calls; the registers
\* after reset; for each LED its data bit and the level that lights it; and
\* the bits an opened pin needs, as <<register, ones, zeros>>.
File(test, num, Open(_), Call(_, _), reset, data, needs) ==
  [test |-> test, which |-> 0 .. num - 1, open |-> [w \in 0 .. num - 1 |-> Open(w)],
   call |-> [w \in 0 .. num - 1 |-> [s \in test.calls |-> Call(w, s)]],
   reset |-> reset, data |-> data, needs |-> needs]
NoData == << >>
OneLed(r, bit, level) == [w \in {0} |-> [r |-> r, bit |-> bit, level |-> level]]
NoNeeds == [w \in 0 .. 3 |-> {}]

Board02(opr, reset, data, needs) ==
  File(ledtest02, opr.num, LAMBDA w : led_drv_open02(opr, w),
       LAMBDA w, s : led_drv_write02(opr, w, s), reset, data, needs)
ImxMux == <<"mux", {0, 2}, {1, 3}>>

LedFile ==
  [template |->
     File(ledtest01, board_demo_led_opr.num,
          LAMBDA w : led_drv_open01(board_demo_led_opr, w),
          LAMBDA w, s : led_drv_write01(board_demo_led_opr, w, s),
          [none |-> {}], NoData, NoNeeds),
   separate |->
     File(ledtest03, chip_demo_led_opr.num,
          LAMBDA w : led_drv_open03(chip_demo_led_opr, w),
          LAMBDA w, s : led_drv_write03(chip_demo_led_opr, w, s),
          [board_A_led |-> {}], NoData, NoNeeds),
   qemu |->
     Board02(qemu_led_opr,
       [ccgr1 |-> {}, mux0 |-> {1}, mux1 |-> {1}, mux2 |-> {1}, mux3 |-> {1},
        gdir5 |-> {}, gdir1 |-> {}, dr5 |-> {}, dr1 |-> {}],
       [w \in 0 .. 3 |-> IF w = 0 THEN [r |-> "dr5", bit |-> 3, level |-> 0]
                         ELSE [r |-> "dr1", bit |-> QemuBit[w], level |-> 0]],
       [w \in 0 .. 3 |->
          IF w = 0 THEN {<<"ccgr1", {30, 31}, {}>>, <<"mux0", {0, 2}, {1, 3}>>,
                         <<"gdir5", {3}, {}>>}
          ELSE {<<"ccgr1", {26, 27}, {}>>, <<"gdir1", {QemuBit[w]}, {}>>,
                <<<<"mux1", "mux2", "mux3">>[w], {0, 2}, {1, 3}>>}]),
   am335x |->
     Board02(am335x_led_opr,
       [clk |-> {}, mux |-> {}, oe |-> {16}, dr |-> {}], OneLed("dr", 16, 0),
       [w \in {0} |-> {<<"clk", {1, 18}, {}>>, <<"mux", {0, 1, 2}, {}>>,
                       <<"oe", {}, {16}>>}]),
   rk3288 |->
     Board02(rk3288_led_opr,
       [clk |-> {8}, mux |-> {2}, ddr |-> {}, dr |-> {}], OneLed("dr", 1, 0),
       [w \in {0} |-> {<<"clk", {}, {8}>>, <<"mux", {}, {2, 3}>>,
                       <<"ddr", {1}, {}>>}]),
   rk3399 |->
     Board02(rk3399_led_opr,
       [clk |-> {3}, mux |-> {6}, ddr |-> {}, dr |-> {}], OneLed("dr", 27, 1),
       [w \in {0} |-> {<<"clk", {}, {3}>>, <<"mux", {}, {6, 7}>>,
                       <<"ddr", {27}, {}>>}]),
   atk |->
     Board02(atk_led_opr,
       [ccgr1 |-> {}, mux |-> {1}, gdir |-> {}, dr |-> {}], OneLed("dr", 3, 0),
       [w \in {0} |-> {<<"ccgr1", {26, 27}, {}>>, ImxMux, <<"gdir", {3}, {}>>}]),
   fire |->
     Board02(fire_led_opr,
       [ccgr1 |-> {}, mux |-> {1}, gdir |-> {}, dr |-> {}], OneLed("dr", 3, 0),
       [w \in {0} |-> {<<"ccgr1", {30, 31}, {}>>, ImxMux, <<"gdir", {3}, {}>>}]),
   imx6ull |->
     Board02(imx6ull_led_opr,
       [ccgr1 |-> {}, mux |-> {1}, gdir |-> {}, dr |-> {}], OneLed("dr", 3, 0),
       [w \in {0} |-> {<<"ccgr1", {30, 31}, {}>>, ImxMux, <<"gdir", {3}, {}>>}]),
   stm32mp157 |->
     Board02(stm32mp157_led_opr,
       [pll |-> {}, clk |-> {}, moder |-> {20, 21}, dr |-> {}],
       OneLed("dr", 10, 0),
       [w \in {0} |-> {<<"pll", {0}, {}>>, <<"clk", {0}, {}>>,
                       <<"moder", {20}, {21}>>}]),
   simple |->
     File(ledtest00, 1, LAMBDA w : led_open_simple,
          LAMBDA w, s : led_write_simple(s), [none |-> {}], NoData, NoNeeds),
   simple_imx6ull |->
     File(ledtest00, 1, LAMBDA w : led_open_imx6ull,
          LAMBDA w, s : led_write_imx6ull(s),
          [mux |-> {1}, gdir |-> {}, dr |-> {}], OneLed("dr", 3, 0),
          [w \in {0} |-> {ImxMux, <<"gdir", {3}, {}>>}]),
   simple_stm32mp157 |->
     File(ledtest00, 1, LAMBDA w : led_open_stm32mp157,
          LAMBDA w, s : led_write_stm32mp157(s),
          [pll |-> {}, clk |-> {}, moder |-> {20, 21}, dr |-> {}],
          OneLed("dr", 10, 0),
          [w \in {0} |-> {<<"pll", {0}, {}>>, <<"clk", {0}, {}>>,
                          <<"moder", {20}, {21}>>}]),
   device_tree |->
     File(ledtest05, 2, led_open05, led_write05,
          [mux0 |-> {1}, mux1 |-> {1}, gdir |-> {}, dr |-> {}],
          [w \in {0, 1} |-> [r |-> "dr", bit |-> w, level |-> 0]],
          [w \in {0, 1} |-> {<<ChipMux[w], {0, 2}, {1, 3}>>, <<"gdir", {w}, {}>>}]),
   gpio_led |->
     File(gpio_ledtest, 1, LAMBDA w : gpio_led_open,
          LAMBDA w, s : gpio_led_write(s), [line |-> {}], OneLed("line", 0, 1),
          NoNeeds)]

OtherFile ==
  [button |->
     File(button_fdrv_test, 2, button_fdrv_open,
          LAMBDA w, s : button_fdrv_read(w),
          [mux0 |-> {1}, mux1 |-> {1}, gdir |-> {0, 1}, dr |-> {0, 1}], NoData,
          [w \in {0, 1} |-> {<<ChipMux[w], {0, 2}, {1, 3}>>, <<"gdir", {}, {w}>>}]),
   hello01 |->
     File(hello_drv_test01, 1, LAMBDA w : << >>,
          LAMBDA w, s : IF s = "-r" THEN hello_drv_read01 ELSE hello_drv_write01(s),
          [none |-> {}], NoData, NoNeeds),
   hello01b |->
     File(hello_drv_test01b, 1, LAMBDA w : << >>,
          LAMBDA w, s : IF s = "-r" THEN hello_drv_read01b ELSE hello_drv_write01b(s),
          [none |-> {}], NoData, NoNeeds),
   hello07 |->
     File(hello_drv_test07, 1, LAMBDA w : << >>, LAMBDA w, s : compare07,
          [none |-> {}], NoData, NoNeeds)]

Device == LedFile @@ OtherFile

\* The drivers that fill in their pointers at the first open.
Lazy == {"separate", "qemu", "am335x", "rk3288", "rk3399", "atk", "fire",
         "imx6ull", "stm32mp157"}

\* These drivers clear the pin's function before they set it, so an open of
\* a pin in use takes it away for a moment.
ClearFirst == {"simple_imx6ull", "simple_stm32mp157", "stm32mp157",
               "device_tree", "button"}
=============================================================================
