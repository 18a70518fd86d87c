-------------------------- MODULE RegisterPrograms ---------------------------
(***************************************************************************)
(* What a process makes the drivers do when it opens a node and reads or   *)
(* writes it, as sequences of loads and stores on what two processes may   *)
(* share: the registers of a board, the pointers to them, and the buffer   *)
(* of the hello drivers.  DeviceFiles says what a step does.  A register   *)
(* holds the set of its bits that are 1.                                   *)
(***************************************************************************)
EXTENDS Naturals, SequencesExt

Op(op, ptr, cell, v) == <<[op |-> op, ptr |-> ptr, cell |-> cell, v |-> v]>>

\* *r |= bits and *r &= ~bits are a load and a store.
OrInto(ptr, r, bits) == Op("load", ptr, r, {}) \o Op("or", ptr, r, bits)
AndNot(ptr, r, bits) == Op("load", ptr, r, {}) \o Op("andnot", ptr, r, bits)
\* *r = bits; and stores the hardware turns into setting or clearing bits.
Put(ptr, r, bits) == Op("put", ptr, r, bits)
SetIn(ptr, r, bits) == Op("set", ptr, r, bits)
ClearIn(ptr, r, bits) == Op("clear", ptr, r, bits)
\* if (!ptrs[1]) { every pointer = ioremap(...) }
MapOnce(ptrs) ==
  Op("unless", ptrs[1], "none", {Len(ptrs)})
    \o FlattenSeq([i \in DOMAIN ptrs |-> Op("map", ptrs[i], "none", {})])

\* A pin driven through a data register that is changed as a whole, lit at
\* level 0 or at level 1.
LowIsOn(ptr, r, bit, s) ==
  IF s = "on" THEN AndNot(ptr, r, {bit}) ELSE OrInto(ptr, r, {bit})
HighIsOn(ptr, r, bit, s) ==
  IF s = "on" THEN OrInto(ptr, r, {bit}) ELSE AndNot(ptr, r, {bit})

OnOff == {"on", "off"}

\* struct led_operations; "which" counts from 0, and a board has num LEDs.
Opr(num, Init(_), Ctl(_, _)) ==
  [num |-> num, init |-> [w \in 0 .. num - 1 |-> Init(w)],
   ctl |-> [w \in 0 .. num - 1, s \in OnOff |-> Ctl(w, s)]]

-----------------------------------------------------------------------------
(* Boards whose LEDs are modelled by their messages only.                   *)

board_demo_led_init(w) == << >>
board_demo_led_ctl(w, s) == << >>
board_demo_led_opr == Opr(2, board_demo_led_init, board_demo_led_ctl)

\* led_rsc is fetched once and then followed.
get_led_resouce == Op("map", "led_rsc", "none", {})
chip_demo_led_init(w) ==
  Op("unless", "led_rsc", "none", {1}) \o get_led_resouce
    \o Op("load", "led_rsc", "board_A_led", {})
chip_demo_led_ctl(w, s) == Op("load", "led_rsc", "board_A_led", {})
chip_demo_led_opr == Opr(2, chip_demo_led_init, chip_demo_led_ctl)

-----------------------------------------------------------------------------
(* board_100ask_imx6ull-qemu.c: LED 0 is on gpio5, LEDs 1 to 3 on gpio1.    *)

QemuBit == <<3, 5, 6>>
qemu_led_init(w) ==
  MapOnce(<<"CCM_CCGR1", "TAMPER3", "iomux", "gpio1", "gpio5">>)
    \o IF w = 0
       THEN OrInto("CCM_CCGR1", "ccgr1", {30, 31})
              \o Put("TAMPER3", "mux0", {0, 2})
              \o OrInto("gpio5", "gdir5", {3})
       ELSE OrInto("CCM_CCGR1", "ccgr1", {26, 27})
              \o Put("iomux", <<"mux1", "mux2", "mux3">>[w], {0, 2})
              \o OrInto("gpio1", "gdir1", {QemuBit[w]})

\* (Faulty form: the pin next to the LED's.)
qemu_led_ctl_next_pin(w, s) ==
  IF w = 0 THEN LowIsOn("gpio5", "dr5", 3, s)
           ELSE LowIsOn("gpio1", "dr1", QemuBit[w] + 1, s)

qemu_led_ctl(w, s) ==
  IF w = 0 THEN LowIsOn("gpio5", "dr5", 3, s)
           ELSE LowIsOn("gpio1", "dr1", QemuBit[w], s)
qemu_led_opr == Opr(4, qemu_led_init, qemu_led_ctl)

-----------------------------------------------------------------------------
(* The boards with one LED.                                                 *)

am335x_led_init(w) ==
  MapOnce(<<"CM_PER_GPIO1_CLKCTRL", "conf_gpmc_a0", "GPIO1_OE",
            "GPIO1_CLEARDATAOUT", "GPIO1_SETDATAOUT">>)
    \o Put("CM_PER_GPIO1_CLKCTRL", "clk", {1, 18})
    \o Put("conf_gpmc_a0", "mux", {0, 1, 2})
    \o AndNot("GPIO1_OE", "oe", {16})
am335x_led_ctl(w, s) ==
  IF s = "on" THEN ClearIn("GPIO1_CLEARDATAOUT", "dr", {16})
              ELSE SetIn("GPIO1_SETDATAOUT", "dr", {16})
am335x_led_opr == Opr(1, am335x_led_init, am335x_led_ctl)

\* (Faulty form: the data register is not mapped.)
rk3288_led_init_no_dr(w) ==
  MapOnce(<<"CRU_CLKGATE14_CON", "GRF_GPIO8A_IOMUX", "GPIO8_SWPORTA_DDR">>)
    \o ClearIn("CRU_CLKGATE14_CON", "clk", {8})
    \o ClearIn("GRF_GPIO8A_IOMUX", "mux", {2, 3})
    \o OrInto("GPIO8_SWPORTA_DDR", "ddr", {1})

\* The upper half of these two registers says which of the lower bits a
\* store changes.
rk3288_led_init(w) ==
  MapOnce(<<"CRU_CLKGATE14_CON", "GRF_GPIO8A_IOMUX", "GPIO8_SWPORTA_DDR",
            "GPIO8_SWPORTA_DR">>)
    \o ClearIn("CRU_CLKGATE14_CON", "clk", {8})
    \o ClearIn("GRF_GPIO8A_IOMUX", "mux", {2, 3})
    \o OrInto("GPIO8_SWPORTA_DDR", "ddr", {1})
rk3288_led_ctl(w, s) == LowIsOn("GPIO8_SWPORTA_DR", "dr", 1, s)
rk3288_led_opr == Opr(1, rk3288_led_init, rk3288_led_ctl)

rk3399_led_init(w) ==
  MapOnce(<<"CRU_CLKGATE_CON31", "GRF_GPIO2D_IOMUX", "GPIO2_SWPORTA_DDR",
            "GPIO2_SWPORTA_DR">>)
    \o ClearIn("CRU_CLKGATE_CON31", "clk", {3})
    \o ClearIn("GRF_GPIO2D_IOMUX", "mux", {6, 7})
    \o OrInto("GPIO2_SWPORTA_DDR", "ddr", {27})

\* (Faulty form: copied from the rk3288, where level 0 is on.)
rk3399_led_ctl_as_rk3288(w, s) == LowIsOn("GPIO2_SWPORTA_DR", "dr", 27, s)

rk3399_led_ctl(w, s) == HighIsOn("GPIO2_SWPORTA_DR", "dr", 27, s)
rk3399_led_opr == Opr(1, rk3399_led_init, rk3399_led_ctl)

\* The pad is read, changed in a local and stored once.
atk_led_init(w) ==
  MapOnce(<<"CCM_CCGR1", "PAD_GPIO1_IO03", "GPIO1_GDIR", "GPIO1_DR">>)
    \o OrInto("CCM_CCGR1", "ccgr1", {26, 27})
    \o Op("load", "PAD_GPIO1_IO03", "mux", {})
    \o Op("nibble", "PAD_GPIO1_IO03", "mux", {0, 2})
    \o OrInto("GPIO1_GDIR", "gdir", {3})
atk_led_ctl(w, s) == LowIsOn("GPIO1_DR", "dr", 3, s)
atk_led_opr == Opr(1, atk_led_init, atk_led_ctl)

fire_led_init(w) ==
  MapOnce(<<"CCM_CCGR1", "TAMPER3", "GPIO5_GDIR", "GPIO5_DR">>)
    \o OrInto("CCM_CCGR1", "ccgr1", {30, 31})
    \o Op("load", "TAMPER3", "mux", {})
    \o Op("nibble", "TAMPER3", "mux", {0, 2})
    \o OrInto("GPIO5_GDIR", "gdir", {3})
fire_led_ctl(w, s) == LowIsOn("GPIO5_DR", "dr", 3, s)
fire_led_opr == Opr(1, fire_led_init, fire_led_ctl)

\* The 100ask board has its LED on the same pin.
imx6ull_led_init(w) == fire_led_init(w)
imx6ull_led_ctl(w, s) == fire_led_ctl(w, s)
imx6ull_led_opr == Opr(1, imx6ull_led_init, imx6ull_led_ctl)

\* (Faulty form: the mode is cleared after it is set.)
stm32mp157_pin_swapped ==
  OrInto("RCC_PLL4CR", "pll", {0})
    \o OrInto("RCC_MP_AHB4ENSETR", "clk", {0})
    \o OrInto("GPIOA_MODER", "moder", {20})
    \o AndNot("GPIOA_MODER", "moder", {20, 21})

\* The clock is waited for; it locks by itself.  The mode of the pin is
\* cleared and then set, with two stores.
stm32mp157_pin ==
  OrInto("RCC_PLL4CR", "pll", {0})
    \o OrInto("RCC_MP_AHB4ENSETR", "clk", {0})
    \o AndNot("GPIOA_MODER", "moder", {20, 21})
    \o OrInto("GPIOA_MODER", "moder", {20})
stm32mp157_led_init(w) ==
  MapOnce(<<"RCC_PLL4CR", "RCC_MP_AHB4ENSETR", "GPIOA_MODER", "GPIOA_BSRR">>)
    \o stm32mp157_pin
stm32mp157_led_ctl(w, s) ==
  IF s = "on" THEN ClearIn("GPIOA_BSRR", "dr", {10})
              ELSE SetIn("GPIOA_BSRR", "dr", {10})
stm32mp157_led_opr == Opr(1, stm32mp157_led_init, stm32mp157_led_ctl)

-----------------------------------------------------------------------------
(* The drivers above the boards: what open and write do.                    *)

led_drv_open01(opr, w) == opr.init[w]
led_drv_write01(opr, w, s) == opr.ctl[w, s]
led_drv_open02(opr, w) == opr.init[w]
led_drv_write02(opr, w, s) == opr.ctl[w, s]
led_drv_open03(opr, w) == opr.init[w]
led_drv_write03(opr, w, s) == opr.ctl[w, s]

\* The simple drivers map their registers when they are loaded.
led_open_simple == << >>
led_write_simple(s) == << >>
led_open_imx6ull ==
  AndNot("TAMPER3", "mux", {0, 1, 2, 3}) \o OrInto("TAMPER3", "mux", {0, 2})
    \o OrInto("GPIO5_GDIR", "gdir", {3})
led_write_imx6ull(s) == LowIsOn("GPIO5_DR", "dr", 3, s)
led_open_stm32mp157 == stm32mp157_pin
led_write_stm32mp157(s) == stm32mp157_led_ctl(0, s)

\* chip_led.c of 05 maps on each call the registers its device-tree node
\* names: here two LEDs of one gpio.  A toggle looks at the register, and
\* then changes it as ctl does.
ChipMux == [w \in {0, 1} |-> IF w = 0 THEN "mux0" ELSE "mux1"]
chip_led_init(w) ==
  AndNot("iomuxc", ChipMux[w], {0, 1, 2, 3}) \o OrInto("iomuxc", ChipMux[w], {0, 2})
    \o OrInto("gdir", "gdir", {w})
chip_led_ctl(w, s) == LowIsOn("dr", "dr", w, s)
chip_led_toggle(w) == Op("toggle", "dr", "dr", {w})
led_open05(w) == chip_led_init(w)
led_write05(w, s) == IF s = "toggle" THEN chip_led_toggle(w) ELSE chip_led_ctl(w, s)

\* gpiolib drives the pin under its own lock; open drives it to 0.
gpio_led_open == Op("clear", "led_gpios", "line", {0})
gpio_led_write(s) ==
  IF s = "on" THEN SetIn("led_gpios", "line", {0})
              ELSE ClearIn("led_gpios", "line", {0})

\* Two buttons of one gpio.  A read looks at the pin; while it is pressed,
\* the read spins.
button_init(w) ==
  AndNot("iomuxc", ChipMux[w], {0, 1, 2, 3}) \o OrInto("iomuxc", ChipMux[w], {0, 2})
    \o AndNot("gpio", "gdir", {w})
button_read(w) == Op("unpressed", "gpio", "dr", {w})
button_fdrv_open(w) == button_init(w)
button_fdrv_read(w) == button_read(w)

-----------------------------------------------------------------------------
(* The buffer of the hello drivers, copied piece by piece: a read asks for  *)
(* all of it; a write copies as many bytes as it is given, which are those  *)
(* of a string with its NUL.                                                *)

Pieces == <<0, 1>>
Copied(op, base) ==
  FlattenSeq([i \in DOMAIN Pieces |-> Op(op, base, "none", {Pieces[i]})])

\* A string that ends in the first piece: what is behind it stays as it was.
Ending(base) == Op("store", base, "end", {Pieces[1]})

\* (Faulty form: half of what was asked for is copied.)
hello_drv_write_half(s) ==
  IF s = "-w long" THEN Op("store", "kernel_buf", "none", {0}) ELSE Ending("kernel_buf")

hello_drv_write01(s) ==
  IF s = "-w long" THEN Copied("store", "kernel_buf") ELSE Ending("kernel_buf")
hello_drv_read01 == Copied("fetch", "kernel_buf")
hello_drv_write01b(s) == hello_drv_write01(s)
hello_drv_read01b == hello_drv_read01
hello_drv_read07 == hello_drv_read01

\* The mapping starts with the page the buffer is in, and is write-combining:
\* what is put there does not go through the kernel's cache.
hello_mmap07 == "page"

-----------------------------------------------------------------------------
(* The test programs: what they do with the open node, which of it they     *)
(* repeat for ever, and whether they end.                                   *)

Test(calls, again, ends) == [calls |-> calls, again |-> again, ends |-> ends]

ledtest00 == Test(OnOff, {}, TRUE)
ledtest01 == Test(OnOff, {}, TRUE)
ledtest02 == ledtest01
ledtest03 == ledtest01
ledtest05 == Test(OnOff \cup {"toggle"}, {"toggle"}, TRUE)
gpio_ledtest == Test(OnOff, {}, TRUE)
button_fdrv_test == Test({"read"}, {"read"}, TRUE)
\* -w with a string that fits one piece, or does not.
hello_drv_test01 == Test({"-w short", "-w long", "-r"}, {}, TRUE)
hello_drv_test01b == hello_drv_test01

\* The node is mapped, a string put there and read back through the driver;
\* then the program sleeps.
hello_drv_test07 == Test({"compare"}, {}, FALSE)
compare07 == Ending(hello_mmap07) \o hello_drv_read07
=============================================================================
