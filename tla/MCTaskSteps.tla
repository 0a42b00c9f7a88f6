------------------------------ MODULE MCTaskSteps ------------------------------
\* Tasks of their own and of a workflow, verified or not, with and without extraction,
\* with a browser to close or to keep.
EXTENDS TaskSteps

Kind(place, verify, extract, close) ==
  [place |-> place, verify |-> verify, extract |-> extract, browser |-> close]

MCKinds == {Kind("alone", "yes", "no", "closes"), Kind("alone", "no", "yes", "closes"),
            Kind("alone", "no", "no", "keeps"), Kind("workflow", "yes", "no", "keeps")}

=============================================================================
