------------------------------ MODULE MCRadar ------------------------------
EXTENDS Radar

d == <<"d">>
e == <<"d", "e">>
f == <<"d", "e", "f">>
MCPaths == {d, e, f}
Tree(x, y, z) == [p \in MCPaths |-> IF p = d THEN x ELSE IF p = e THEN y ELSE z]

\* d, d/e and d/e/f as files, directories or absent.
MCTrees == {Tree(0, 0, 0), Tree(1, 0, 0), Tree(-1, 0, 0), Tree(-1, 1, 0), Tree(-1, 2, 0),
            Tree(-1, -1, 0), Tree(-1, -1, 1), Tree(-1, -1, 2), Tree(-2, -1, 1), Tree(-2, -1, 2)}
MCPatterns == {[path |-> e, wild |-> FALSE], [path |-> d, wild |-> TRUE]}

Nested == Tree(-1, -1, 1)
All == MCTrees \ {Tree(-2, -1, 2)}

\* d/e/f or a directory is changed, d/e becomes a file, d a file, all is removed.
Few == {Tree(-1, -1, 2), Tree(-2, -1, 1), Tree(-1, 1, 0), Tree(1, 0, 0), Tree(0, 0, 0)}
Scanning(n, bases, trees, s, c, x) ==
    [scanners |-> 1..n, forks |-> {1, 2}, bases |-> bases, trees |-> trees,
     seals |-> s, claims |-> c, faults |-> x]
OneScanner == {Scanning(1, {Nested}, All, 3, 0, 0),
               Scanning(1, {Tree(0, 0, 0), Tree(1, 0, 0)}, Few, 3, 0, 0)}

\* Three universes that change d/e/f, the metadata of d, or both.
ThreeForks ==
    {[scanners |-> {1}, forks |-> {1, 2, 3}, bases |-> {Nested},
      trees |-> {Tree(-1, -1, 2), Tree(-2, -1, 1), Tree(-2, -1, 2)}, seals |-> 3, claims |-> 0, faults |-> 0]}
MCScenarios == OneScanner \cup ThreeForks \cup
               {Scanning(2, {Nested}, Few, 2, 0, 0), Scanning(1, {Nested}, All, 2, 0, 1),
                Scanning(1, {Nested}, Few, 2, 1, 0), Scanning(0, {Nested}, Few, 0, 3, 1)}
=============================================================================
