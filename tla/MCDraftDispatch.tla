-------------------------- MODULE MCDraftDispatch --------------------------
(* One operation of each kind that a configuration names.                   *)
EXTENDS DraftDispatch, TLC

CONSTANTS Create, Update, Template, Campaign

MCKind == [o \in Ops |-> CASE o = Create -> "create"
                          [] o = Update -> "update"
                          [] o = Template -> "template"
                          [] o = Campaign -> "campaign"]
MCTemplateOf == [o \in Ops |-> Template]

\* Each behaviour is about one provider: the operations of the other, whose rows
\* and settings are separate, stay as they began.
OneProvider ==
    \E p \in Providers :
        /\ Providers \ {p} \subseteq enabled \cap healthy
        /\ \A o \in Ops : Provider(o) # p => row[o] = NoRow /\ o \in current

MCSymmetry == Permutations(Callers)
=============================================================================
