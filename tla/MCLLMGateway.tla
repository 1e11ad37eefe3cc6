------------------------------ MODULE MCLLMGateway ------------------------------
(* Instance of LLMGateway: an answer that is valid with the evidence and    *)
(* one that always is, with every kind of item between them.               *)
EXTENDS LLMGateway, TLC

Output(cited, observed) ==
    [object |-> TRUE, complete |-> TRUE, cited |-> cited, observed |-> observed]
Claim(ids) == [kind |-> "claim", ids |-> ids]

MCOutputs ==
    {Output(Evidence, {Bare, Claim({})}),
     Output({}, {Claim(Evidence), Bare, Other})}

\* Calls are alike, and so are keys.
Symmetry == Permutations(Calls) \cup Permutations(Keys)
=============================================================================
