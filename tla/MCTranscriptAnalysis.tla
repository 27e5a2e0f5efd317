-------------------------- MODULE MCTranscriptAnalysis --------------------------
(* The first batches of two sessions complete an edge each.                *)
EXTENDS TranscriptAnalysis

CONSTANTS s1, s2

FirstBatches == {<<s1, 1>>, <<s2, 1>>, <<s1, 2>>}
=============================================================================
