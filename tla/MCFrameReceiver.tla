--------------------------- MODULE MCFrameReceiver ---------------------------
(* Frames of up to two payload bytes, one of them equal to the mark, in    *)
(* streams of up to three; reads that split and merge them at every place; *)
(* a queue that up to three unread small frames overflow.                  *)
EXTENDS FrameReceiver

MCFrames == {<<>>, <<1>>, <<Mark>>, <<Mark, 1>>}
=============================================================================
