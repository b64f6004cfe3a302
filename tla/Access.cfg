SPECIFICATION FairSpec
CONSTANTS
    Outside = {out}
    Inside = {in}
    Streak = 2
    MaxEvents = 2
INVARIANTS ToldOnceWhatStands LostSight
PROPERTY AnchorFollows
