------------------------------ MODULE MCService ------------------------------
(* Two APIs: a secure POST that takes an upload, and an open GET.  A call  *)
(* of each kind the code treats differently.                               *)
EXTENDS Service, TLC

\* A user who is a clerk may upload; the name of a clerk is in a chief's.
RoleNames == {"clerk", "chief clerk", "guest"}
ApiRoles  == [a \in Apis |-> IF a = "upload" THEN {"clerk"} ELSE {}]
Inside    == {<<a, a>> : a \in RoleNames} \cup {<<"clerk", "chief clerk">>}

F(name) == [name |-> name, file |-> TRUE]
T(name) == [name |-> name, file |-> FALSE]

Good == [method |-> "POST", wellFormed |-> TRUE, allowed |-> TRUE, target |-> "upload",
         obeys |-> TRUE, token |-> "good", roles |-> {"clerk"}, fields |-> <<F("f")>>]
Look == [Good EXCEPT !.target = "look", !.method = "GET", !.token = "none",
                     !.fields = <<>>]

ManyCalls == {
    Good,
    [Good EXCEPT !.fields = <<F("f"), F("g")>>],
    [Good EXCEPT !.fields = <<F("f"), F("f")>>],
    [Good EXCEPT !.fields = <<T("f"), F("f")>>],
    [Good EXCEPT !.fields = <<T("g")>>, !.roles = {"chief clerk"}],
    [Good EXCEPT !.roles = {"guest"}],
    [Good EXCEPT !.token = "bad", !.fields = <<T("f")>>],
    [Good EXCEPT !.token = "none", !.fields = <<>>],
    [Good EXCEPT !.obeys = FALSE],
    [Good EXCEPT !.wellFormed = FALSE],
    [Good EXCEPT !.allowed = FALSE],
    [Good EXCEPT !.target = "unknown"],
    [Good EXCEPT !.target = "look"],
    Look,
    [Look EXCEPT !.fields = <<T("f")>>],
    [Look EXCEPT !.target = "diagnostic"],
    [Look EXCEPT !.method = "OPTIONS", !.target = "upload"]}

Uploads == {Good}

Symmetry == Permutations(Requests)
=============================================================================
