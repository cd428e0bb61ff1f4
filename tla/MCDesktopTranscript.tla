-------------------------- MODULE MCDesktopTranscript --------------------------
(* One desktop: what is dictated on it, and who has its keyboard.           *)
EXTENDS DesktopTranscript, DesktopWindows

\* The two share no state: a window of DesktopWindows comes up and goes down as
\* any companion might have it.  So neither moves in a behaviour in which the
\* other does.  One application is as good as another.
Untouched == WindowsInit /\ keys = CHOOSE a \in Apps : TRUE

DeskInit == Init /\ Untouched

DeskNext ==
  \/ Untouched /\ Next /\ UNCHANGED windows
  \/ Init /\ WindowsNext /\ UNCHANGED vars

DeskSpec == DeskInit /\ [][DeskNext]_<<vars, windows>> /\ Fairness
=============================================================================
