--------------------------- MODULE MCPubSubClient ----------------------------
EXTENDS PubSubClient

With(faults, hasty) == [faults |-> faults, hasty |-> hasty]

AllWorlds == {With({"refuse", "close", "flood"}, FALSE),
              With(Fault \ {"deny"}, FALSE),
              With(Fault, TRUE)}
ResetWorld == {With({"reset"}, FALSE)}
=============================================================================
