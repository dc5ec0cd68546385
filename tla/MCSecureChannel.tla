--------------------------- MODULE MCSecureChannel ---------------------------
EXTENDS SecureChannel

CONSTANT none

\* Security levels: authentication only, commands protected, all protected.
SomeLevels == {{}, {"cmac", "cenc"}, {"cmac", "cenc", "rmac", "renc"}}
=============================================================================
