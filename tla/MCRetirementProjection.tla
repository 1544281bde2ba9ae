----------------------- MODULE MCRetirementProjection -----------------------
EXTENDS RetirementProjection

\* One old account that was closed, one without a reported balance, one of each other
\* treatment; with as much in each as a few years take.
MCAssets(preTax, roth) ==
    {[status |-> "closed", treatment |-> "pre_tax", balance |-> 30,     holdings |-> 0],
     [status |-> "active", treatment |-> "pre_tax", balance |-> None,   holdings |-> preTax],
     [status |-> "active", treatment |-> "roth",    balance |-> roth,   holdings |-> 0],
     [status |-> "active", treatment |-> "hsa",     balance |-> 7,      holdings |-> 9]}

MCFormula == [tiers |-> << [up_to |-> 10, match |-> 100], [up_to |-> 20, match |-> 50] >>,
              cap |-> None]

\* An age, a target age and a life expectancy: a year of saving before an old age with
\* large required distributions, Social Security and the distributions starting
\* between, and one who is past the target age.
Plans == {<<93, 94, 97>>, <<69, 69, 74>>, <<72, 69, 73>>}

MCRequest ==
    {[birth |-> [year |-> 2024 - plan[1], md |-> 50], today |-> [year |-> 2024, md |-> 100],
      target |-> plan[2], life |-> plan[3], gross |-> 20,
      preTaxPct |-> 10, rothPct |-> 10, formula |-> [MCFormula EXCEPT !.cap = cap],
      tax |-> tax, assets |-> MCAssets(24, roth), ss |-> ss] :
         plan \in Plans, cap \in {None, 2}, tax \in {0, 50, 100}, roth \in {0, 11},
         ss \in {None, [benefit |-> 1, quoted |-> 804, claiming |-> 840]}}

\* A bad year and a good one.
MCReturn == {-50, 30}
=============================================================================
