SPECIFICATION FairSpec
CONSTANTS
    nft1 = nft1
    nft2 = nft2
    alice = alice
    bob = bob
    None = None
    ASSETS = {nft1, nft2}
    OWNERS = {alice, bob}
    RewardsBps = {5000}
    FreezePeriods = {0, 2}
    SECONDS_PER_DAY = 2
    UNIT = 10000
    MaxU64 = 1000000000
    MaxTime = 7
    MaxStakes = 3
INVARIANTS TypeOK CountExact ClocksExact RewardsAdditive
PROPERTIES UnstakePaysEveryDay StakedNeverMoves EventuallyUnstaked
CHECK_DEADLOCK FALSE
