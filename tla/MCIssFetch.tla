------------------------------ MODULE MCIssFetch ------------------------------
\* Four bars and pages of one to three: fetches of up to four pages, with bars
\* published and withdrawn on both sides of the offset.
EXTENDS IssFetch

FourBars == 1..4

=============================================================================
