--------------------------- MODULE MCApplication ----------------------------
(* Bounds for model checking Application.  Every group has its default and *)
(* one other value; the source is a git repository or an image.            *)
EXTENDS Application, TLC

CONSTANTS a, b, img

Values == [g \in Groups |-> CASE g = "build"  -> {Unset, a, b}
                               [] g = "source" -> {a, img}
                               [] OTHER        -> {a, b}]
First == [g \in Groups |-> a]
=============================================================================
