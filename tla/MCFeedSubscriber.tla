--------------------------- MODULE MCFeedSubscriber ---------------------------
(***************************************************************************)
(* Frames for the model-checking runs of FeedSubscriber.                   *)
(***************************************************************************)
EXTENDS FeedSubscriber

FrameOf(topic, name, priced, full) ==
  [topic |-> topic, symbol |-> name, priced |-> priced, full |-> full]

CONSTANT x

\* A snapshot of both sides, trades with and without a quantity, and a frame that
\* is left alone.
MCFrames == {FrameOf("snapshot", x, FALSE, TRUE), FrameOf("trade", x, TRUE, TRUE),
             FrameOf("trade", x, TRUE, FALSE), FrameOf("trade", NoSymbol, TRUE, TRUE)}

===============================================================================
