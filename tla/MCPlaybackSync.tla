--------------------------- MODULE MCPlaybackSync ---------------------------
(* Two or three servers on a small instance.                               *)
EXTENDS PlaybackSync, TLC

\* Two servers that both dial: every state travels twice.
Both == {<<1, 2>>, <<2, 1>>}
\* One dials.
Single == {<<1, 2>>}
\* Three servers, each pair connected once.
Mesh == {<<1, 2>>, <<1, 3>>, <<2, 3>>}

=============================================================================
