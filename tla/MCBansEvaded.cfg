SPECIFICATION OrderedSpec
CONSTANTS
    Account = {1, 2}
    PlayerName = {11, 12, 13}
    BanTimes = {0, 1}
    Clock = {1, 3}
PROPERTIES
    BanFollowsThePlayer
