----------------------------- MODULE SdkModuleMC -----------------------------
EXTENDS SdkModule

CONSTANT First

\* Modules are interchangeable: let the one that connects first be First.
FirstConnects == \A m \in Modules \ {First} : link[m][1] = "none"
=============================================================================
