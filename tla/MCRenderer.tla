------------------------------ MODULE MCRenderer ------------------------------
EXTENDS Renderer

G(product, scale, too_large) == [product |-> product, scale |-> scale, too_large |-> too_large]

(* Velocity's scale varies from sweep to sweep.                            *)
MCBaseGrids == {{G("Reflectivity", 1, FALSE), G("Velocity", 1, FALSE)},
                {G("Reflectivity", 1, TRUE), G("Velocity", 2, FALSE)}}

MCDerivedGrids == {{G("EchoTops", 1, FALSE)}}

(* The cuts are not in the order of their numbers.                         *)
MCAngle == [e \in 1..Cuts |-> Cuts - e]

MCProducts == <<"Reflectivity", "Velocity", "EchoTops">>
=============================================================================
