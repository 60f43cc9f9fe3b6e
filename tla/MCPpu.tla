------------------------------- MODULE MCPpu -------------------------------
EXTENDS Ppu

MCEnables == {{}, {"lyc"}, {"oam", "hblank"}, {"vblank", "oam"}, {"hblank", "lyc"}}
=============================================================================
