------------------------------ MODULE MCFraming -----------------------------
EXTENDS Framing

\* A heartbeat, an empty text and a payload whose cells look like a header:
\* a parser one cell off its place finds versions and lengths everywhere.
MCPackets ==
    {[type |-> 4, data |-> <<>>, sequence |-> 0],
     [type |-> 0, data |-> <<1, 1>>, sequence |-> 1],
     [type |-> 1, data |-> <<1>>, sequence |-> 0]}
MCGarbage == {0}
=============================================================================
