------------------------ MODULE MCPreambleDetector ------------------------
(* An instance of PreambleDetector for TLC: preambles of four symbols, and *)
(* integers of 4 and 8 bits in place of 16 and 32.                         *)
EXTENDS PreambleDetector, TLC

MCWords == [protocol \in Protocols |->
    CASE protocol = "RC4" -> <<1, 1, -1, 1>>
      [] protocol = "OpenStint" -> <<1, -1, 1, 1>>
      [] protocol = "RC3" -> <<-1, 1, 1, -1>>]

\* Nothing, a preamble's symbols at two strengths, and some that the second
\* ring hears better than the first.
MCInputs ==
    {<< <<a[1], 0>>, <<a[2], 0>> >> :
        a \in {<<0, 0>>, <<2, 1>>, <<-2, -1>>, <<3, 2>>, <<-3, -2>>, <<1, 3>>}}
============================================================================
