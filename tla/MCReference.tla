---------------------------- MODULE MCReference ----------------------------
EXTENDS ReferenceProperties, TLC
Symmetry == Permutations(Runs) \cup Permutations(Rows) \cup Permutations(Targets)
CampaignModes == {"prepare", "infer", "model", "judge", "score", "judge-score"}
MatrixModes == {"preflight", "prepare", "infer", "answers", "model", "runtime", "judge-score", "matrix"}
AllChanges == {"answers", "verdicts", "weights", "tree", "sources"}
=============================================================================
