----------------------------- MODULE MCAudioPump -----------------------------
(* AudioPump in units of one batch, about 17 ms at any sample rate: 40 ms   *)
(* and 80 ms are two and five batches.  The device asks for less and for    *)
(* more than a batch at a time.                                             *)
EXTENDS AudioPump, TLC
MCBatch == {0, 1}
MCChunk == {1, 3}
=============================================================================
