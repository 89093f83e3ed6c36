------------------------------ MODULE MCPanelAuth ------------------------------
(* Instance of PanelAuth for TLC: three tabs of one browser.         *)
EXTENDS PanelAuth, TLC

CONSTANTS t1, t2, t3

AllTabs == {t1, t2, t3}
TabSymmetry == Permutations(Tabs)
================================================================================
