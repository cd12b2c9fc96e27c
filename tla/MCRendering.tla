---------------------------- MODULE MCRendering -----------------------------
(***************************************************************************)
(* A conversion implements the promise of Rendering.                       *)
(***************************************************************************)
EXTENDS MCConversion

MCDocuments == FlatDocs \cup NestedDocs \cup DefiningDocs \cup MetadataDocs

(* A conversion seen from outside: the document goes in, the output comes. *)
Promise == INSTANCE Rendering WITH
             Documents <- Promised,
             busy   <- pc # "idle" /\ doc \in Promised,
             doc    <- IF doc \in Promised THEN doc ELSE <<>>,
             output <- IF doc \in Promised THEN output ELSE <<>>,
             given  <- IF userReferences = None THEN Nothing ELSE userReferences

(* The conversion of a promised document writes its rendering, piece by    *)
(* piece and to the end: two passes over a rope of functions, and the      *)
(* tables of reader and writer, come to the resolution of every reference  *)
(* against the whole document.                                             *)
Renders == Promise!Spec
=============================================================================
