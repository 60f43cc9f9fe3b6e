----------------------------- MODULE MCMachine -----------------------------
(* Small games for the machine: each exercises one device.                 *)
EXTENDS Machine

MCBitWeight == <<16, 8>>
MCGames == {"timer", "interrupts", "dma", "joypad"}
EdgeGames == {"edge"}

Nop == 0
Store1 == 119        \* LD (HL), A: one write
Store2 == 8          \* LD (nn), SP: two writes
Call == 205
BitOfHl == <<203, 70>>   \* BIT 0, (HL): prefixed, reads memory

Input(code, region, stores, vblank) ==
  [code |-> code, region |-> <<region, region>>, later |-> <<255, 255>>, flags |-> {},
   stores |-> stores, vblank |-> vblank]

None == <<"memory", 0>>
One(s) == <<s, None>>

Plain(ops, region, at) ==
  {Input(<<op, Nop>>, region, <<None, None>>, k) : op \in ops, k \in at}

TimerStores ==
  {<<"div", 0>>, <<"tima", 1>>, <<"tima", 2>>, <<"tma", 0>>, <<"tma", 2>>, <<"if", {}>>,
   <<"tac", <<TRUE, 1>>>>, <<"tac", <<TRUE, 2>>>>, <<"tac", <<FALSE, 2>>>>, <<"ie", {TimerOverflow}>>}

MCInputs ==
  [timer |->
     Plain({Nop, HaltCode, EiCode, StopCode}, "memory", {0})
       \cup {Input(<<Store1, Nop>>, "memory", One(s), 0) : s \in TimerStores}
       \cup {Input(<<Store2, Nop>>, "memory", <<s, t>>, 0) :
               s \in {<<"tima", 2>>}, t \in {<<"tma", 0>>, <<"tac", <<TRUE, 2>>>>}},
   interrupts |->
     Plain({Nop, HaltCode, EiCode, DiCode}, "memory", {0, 1})
       \cup Plain({RetiCode, Call}, "memory", {0, 1, 3})
       \cup {[Input(BitOfHl, "memory", <<None, None>>, 0) EXCEPT !.region = r] :
               r \in {<<"memory", "memory">>, <<"memory", "device">>, <<"device", "memory">>}}
       \cup {Input(<<Store1, Nop>>, "memory", One(s), 0) :
               s \in {<<"serial", 0>>, <<"video", 0>>, <<"if", {}>>, <<"ie", {VBlank, SerialDone}>>, <<"ie", {LcdStat}>>}},
   dma |->
     Plain({Call, EiCode}, "memory", {0})
       \cup {Input(c, r, <<None, None>>, k) :
               c \in {<<Nop, Nop>>, <<Prefix, 70>>, <<Prefix, 199>>}, r \in {"memory", "hram"}, k \in {0, 1}}
       \cup {Input(<<Store1, Nop>>, "memory", One(s), 0) : s \in {<<"dma", 1>>, <<"oam", 0>>, <<"ie", {VBlank}>>}}
       \cup {Input(<<Store1, Nop>>, "hram", One(s), 0) : s \in {<<"dma", 1>>, <<"dma", 2>>, <<"oam", 0>>}}
       \cup {Input(<<Store2, Nop>>, "hram", <<<<"dma", 1>>, <<"oam", 1>>>>, 0)},
   edge |->
     {Input(<<Store1, Nop>>, "hram", One(s), 0) : s \in {<<"dma", 1>>, <<"ie", {LcdStat, TimerOverflow}>>}}
       \cup {[Input(<<c, Nop>>, "hram", <<None, None>>, 0) EXCEPT !.region = <<"hram", "ie">>] :
               c \in {Nop, Prefix}},
   joypad |->
     Plain({Nop, HaltCode, StopCode}, "memory", {0})
       \cup {Input(<<Store1, Nop>>, "memory", One(s), 0) :
               s \in {<<"joypad", r>> : r \in SUBSET Row} \cup {<<"ie", {JoypadPressed}>>, <<"if", {}>>}}]

MCPresses ==
  [g \in MCGames \cup EdgeGames |->
     IF g = "joypad" THEN {<<"keyboard", {<<"d", 0>>}>>, <<"remote", {<<"a", 0>>, <<"d", 1>>}>>} ELSE {}]

=============================================================================
