-------------------------- MODULE MCWorkflowClient --------------------------
EXTENDS WorkflowClient

\* Steps that differ only in their name and their next step behave alike
\* until they are left: one of each kind is opened first.
Kind(s) == [s EXCEPT !.name = "", !.next = ""]
OneOfEachKind == {s \in AllSteps : s = CHOOSE t \in AllSteps : Kind(t) = Kind(s)}
EverySidebar == {CreateCounties, UpdateCounties}
=============================================================================
